---- MODULE Spec2Model ----
(***************************************************************************)
(* Vendor catalog import: the synchronisation engine of                    *)
(* models/vendor_catalog.py with the overlays of models/_gallery_patch.py  *)
(* and models/_import_stats_patch.py.                                      *)
(*                                                                         *)
(* The store is modelled by three tables kept in id order: product         *)
(* templates (never deleted, id = index), supplier links and vendor-origin *)
(* images.  A search with limit=1 returns the match with the lowest id.    *)
(***************************************************************************)
EXTENDS Integers, Sequences, FiniteSets, TLC

\* ---------------------------------------------------------------- bounds
MaxItems == 3
MaxRuns == 3

\* ------------------------------------------------------ program constants
DetailCap == 200
MaxImages == 8

\* ---------------------------------------------------------- value domains
NoVendor == "none"
Vendors == {"V", "W"}

\* An image URL "<base><sep><num>.<ext>"; num = 0 stands for no number.
Url(n) == [base |-> "p", sep |-> "-", num |-> n, ext |-> "jpg"]
NoUrl == [base |-> "", sep |-> "", num |-> 0, ext |-> ""]

\* a category is known by its name; NoCat stands for an empty Many2one
NoCat == ""

\* vendor.catalog.config records: vendor_id, map_by, batch_commit,
\* default_categ_id
Configs ==
  { [id |-> 1, vendor_id |-> "V", map_by |-> "supplierinfo", batch_commit |-> 2,
     default_categ_id |-> NoCat],
    [id |-> 2, vendor_id |-> "W", map_by |-> "default_code", batch_commit |-> 0,
     default_categ_id |-> NoCat],
    [id |-> 3, vendor_id |-> NoVendor, map_by |-> "barcode", batch_commit |-> 1,
     default_categ_id |-> NoCat] }
ConfigIds == {c.id : c \in Configs}

\* a text value: plain text or markup; NoText is the empty value
NoText == [html |-> FALSE, text |-> ""]
Txt(t) == [html |-> FALSE, text |-> t]

\* a numeric value as the feed gives it: absent, not a number, a number
NoNum == [kind |-> "none", v |-> 0]
BadNum == [kind |-> "bad", v |-> 0]
Num(n) == [kind |-> "num", v |-> n]

\* the price, category and description part of an item
Payload(lp, co, pr, cat, de, dw, dd, ds) ==
  [list_price |-> lp, cost |-> co, price |-> pr, category |-> cat,
   description_ecommerce |-> de, website_description |-> dw,
   description |-> dd, description_sale |-> ds]
NoPayload == Payload(NoNum, NoNum, NoNum, "", NoText, NoText, NoText, NoText)

\* Canonical items as the adapter returns them.  sku stands for
\* item["sku"] or item["default_code"]; name is TRUE when a name is given.
Item(n, s, b, main, imgs) ==
  [name |-> n, sku |-> s, vendor_code |-> "", barcode |-> b,
   image_url |-> main, images |-> imgs, data |-> NoPayload]

NoNameItem == Item(FALSE, "B", "", NoUrl, <<>>)
NoKeyItem == Item(TRUE, "", "", NoUrl, <<>>)
GalleryItem == Item(TRUE, "C", "", Url(1), <<Url(1), Url(2), Url(2)>>)

Items ==
  { Item(TRUE, "A", "", NoUrl, <<>>),
    Item(TRUE, "A", "b1", NoUrl, <<>>),
    Item(TRUE, "B", "b1", NoUrl, <<>>),
    Item(TRUE, "", "b1", NoUrl, <<>>),
    GalleryItem, NoNameItem, NoKeyItem }

\* What one download plus the store's image decoding gives for a URL:
\* no content, a payload the store accepts, a payload the store rejects.
Outcomes == {"none", "img", "bad"}

\* ------------------------------------------------------- sequence helpers
Min(S) == CHOOSE x \in S : \A y \in S : x <= y

\* index of the first element satisfying Test, 0 when there is none
FirstIdx(s, Test(_)) ==
  LET S == {k \in 1..Len(s) : Test(s[k])}
  IN IF S = {} THEN 0 ELSE Min(S)

\* the elements of s at the positions in D, order kept
Pick(s, D) ==
  [n \in 1..Cardinality(D) |->
     s[CHOOSE k \in D : Cardinality({j \in D : j <= k}) = n]]

\* s without the positions in D, order kept
RemoveAt(s, D) == Pick(s, (1..Len(s)) \ D)

Range(s) == {s[k] : k \in 1..Len(s)}

\* ------------------------------------------------------ identity resolver
FirstNonZero(a, b) == IF a # 0 THEN a ELSE b

\* the record of the first link satisfying Test, 0 when there is none
LinkTarget(L, k) == IF k = 0 THEN 0 ELSE L[k].product_tmpl_id

\* vendor_catalog.py 277-280: a link of this configuration's vendor
BySupplierOfVendor(c, sku, L) ==
  IF c.map_by = "supplierinfo" /\ sku # "" /\ c.vendor_id # NoVendor
  THEN LinkTarget(L, FirstIdx(L, LAMBDA l : l.partner_id = c.vendor_id
                                            /\ l.product_code = sku))
  ELSE 0

\* vendor_catalog.py 282-284: a link of any vendor
ByAnySupplier(c, sku, L) ==
  IF c.map_by = "supplierinfo" /\ sku # ""
  THEN LinkTarget(L, FirstIdx(L, LAMBDA l : l.product_code = sku))
  ELSE 0

\* vendor_catalog.py 286-287
ByDefaultCode(sku, P) ==
  IF sku # "" THEN FirstIdx(P, LAMBDA r : r.default_code = sku) ELSE 0

\* vendor_catalog.py 288-289
ByBarcode(barcode, P) ==
  IF barcode # "" THEN FirstIdx(P, LAMBDA r : r.barcode = barcode) ELSE 0

_find_template_barcodeFirst(c, sku, barcode, P, L) ==
  FirstNonZero(ByBarcode(barcode, P),
    FirstNonZero(BySupplierOfVendor(c, sku, L),
      FirstNonZero(ByAnySupplier(c, sku, L), ByDefaultCode(sku, P))))

_find_template(c, sku, barcode, P, L) ==
  FirstNonZero(BySupplierOfVendor(c, sku, L),
    FirstNonZero(ByAnySupplier(c, sku, L),
      FirstNonZero(ByDefaultCode(sku, P), ByBarcode(barcode, P))))

\* ------------------------------------------------ supplier-link reconciler
\* vendor_catalog.py 372-408: keep one link of this vendor on the record
ReconcileLinks_keepOthers(vendor, tmpl, sku, L) ==
  LET si_new == FirstIdx(L, LAMBDA l : l.partner_id = vendor /\ l.product_tmpl_id = tmpl)
      si_vals == [partner_id |-> vendor, product_tmpl_id |-> tmpl, product_code |-> sku]
  IN IF si_new # 0 THEN [L EXCEPT ![si_new] = si_vals] ELSE Append(L, si_vals)

ReconcileLinks(vendor, tmpl, sku, L) ==
  LET si_new == FirstIdx(L, LAMBDA l : l.partner_id = vendor /\ l.product_tmpl_id = tmpl)
      si_others == {k \in 1..Len(L) : /\ L[k].product_tmpl_id = tmpl
                                      /\ L[k].product_code = sku
                                      /\ L[k].partner_id # vendor}
      si_vals == [partner_id |-> vendor, product_tmpl_id |-> tmpl, product_code |-> sku]
  IN IF si_new = 0 /\ si_others # {}
     THEN LET first == Min(si_others)
          IN RemoveAt([L EXCEPT ![first] = si_vals], si_others \ {first})
     ELSE LET L1 == RemoveAt(L, si_others)
              n1 == FirstIdx(L1, LAMBDA l : l.partner_id = vendor /\ l.product_tmpl_id = tmpl)
          IN IF n1 # 0 THEN [L1 EXCEPT ![n1] = si_vals] ELSE Append(L1, si_vals)

\* ------------------------------------------------------------ base upsert
\* the barcode to write, "" when another record owns it (346-352)
BarcodeToSet_always(barcode, tmpl, P) == barcode

BarcodeToSet(barcode, tmpl, P) ==
  LET existing == FirstIdx(P, LAMBDA r : r.barcode = barcode)
  IN IF barcode # "" /\ (existing = 0 \/ (tmpl # 0 /\ existing = tmpl))
     THEN barcode ELSE ""

\* result of an upsert: the tables after it, the record, was_created and
\* err, the exception that left the call ("none" when it returned)
Raise(P, L, kind) ==
  [P |-> P, L |-> L, tmpl |-> 0, was_created |-> FALSE, err |-> kind]

\* vendor_catalog.py 343-352: the values written on the record
Vals(old, sku, barcode_to_set) ==
  [default_code |-> IF sku # "" THEN sku ELSE old.default_code,
   barcode |-> IF barcode_to_set # "" THEN barcode_to_set ELSE old.barcode]

NewRecord == [default_code |-> "", barcode |-> ""]

\* vendor_catalog.py 372-408 and 437, on the record tmpl of the table P1
LinkAndReturn(c, sku, P1, L, tmpl, was_created) ==
  [P |-> P1,
   L |-> IF c.vendor_id # NoVendor /\ sku # ""
         THEN ReconcileLinks(c.vendor_id, tmpl, sku, L) ELSE L,
   tmpl |-> tmpl, was_created |-> was_created, err |-> "none"]

\* vendor_catalog.py 367-370: write the found record or create one
WriteOrCreate(c, sku, P, L, found, barcode_to_set) ==
  IF found # 0
  THEN LinkAndReturn(c, sku, [P EXCEPT ![found] = Vals(@, sku, barcode_to_set)],
                     L, found, FALSE)
  ELSE LinkAndReturn(c, sku, Append(P, Vals(NewRecord, sku, barcode_to_set)),
                     L, Len(P) + 1, TRUE)

\* vendor_catalog.py 313 and 346-352, once the record is resolved
UpsertFound(c, sku, barcode, P, L, found) ==
  WriteOrCreate(c, sku, P, L, found, BarcodeToSet(barcode, found, P))

\* VendorCatalogConfig._upsert_product (vendor_catalog.py 292-437)
BaseUpsert(c, item, P, L) ==
  IF ~item.name THEN Raise(P, L, "name")
  ELSE IF item.sku = "" /\ item.barcode = "" THEN Raise(P, L, "key")
  ELSE UpsertFound(c, item.sku, item.barcode, P, L,
                   _find_template(c, item.sku, item.barcode, P, L))

\* --------------------------------------------- prices, category, texts
\* vendor_catalog.py 26-29: None stays None, a number stays, anything else
\* becomes 0.0
_robust_float(x) ==
  IF x.kind = "none" THEN NoNum
  ELSE IF x.kind = "bad" THEN Num(0) ELSE x

\* _brand_notes_patch.py 5-26: empty gives False, markup passes, plain text
\* is wrapped in markup
_as_html(t) == IF t = NoText THEN NoText ELSE [t EXCEPT !.html = TRUE]

\* python's "a or b" on text values
OrText(a, b) == IF a # NoText THEN a ELSE b

\* the texts of a record that its variants show as their own
NoVariantTexts ==
  [description |-> NoText, description_sale |-> NoText,
   website_short_description |-> NoText, website_description |-> NoText]

\* the fields of a product.template row next to default_code and barcode,
\* with the values a new row gets
DefaultFields ==
  [list_price |-> 1, standard_price |-> 0, categ |-> "All",
   description |-> NoText, description_sale |-> NoText,
   website_short_description |-> NoText, website_description |-> NoText,
   description_ecommerce |-> NoText, variants |-> 1, v |-> NoVariantTexts]

\* vendor_catalog.py 301-303: cost, else price
CostOf(d) ==
  IF _robust_float(d.cost).kind # "none" THEN _robust_float(d.cost)
  ELSE _robust_float(d.price)

\* vendor_catalog.py 355: the first non-empty of the four texts
DescHtml(d) ==
  OrText(d.description_ecommerce,
         OrText(d.website_description, OrText(d.description, d.description_sale)))

\* vendor_catalog.py 334-341: the category written into vals (NoCat when
\* none is written) and the categories after the step
CategStep(c, d, C) ==
  IF d.category # ""
  THEN IF d.category \in C THEN [categ |-> d.category, C |-> C]
       ELSE IF c.default_categ_id # NoCat
            THEN [categ |-> c.default_categ_id, C |-> C]
            ELSE [categ |-> d.category, C |-> C \cup {d.category}]
  ELSE [categ |-> c.default_categ_id, C |-> C]

\* vendor_catalog.py 316-358: vals written on the found row or given to
\* create.  list_price is read at 300 and never enters vals.
BaseVals_withListPrice(c, d, old, C, e) ==
  [old EXCEPT
     !.list_price = IF _robust_float(d.list_price).kind # "none"
                    THEN _robust_float(d.list_price).v ELSE @,
     !.standard_price = IF CostOf(d).kind # "none" THEN CostOf(d).v ELSE @,
     !.categ = IF CategStep(c, d, C).categ # NoCat
               THEN CategStep(c, d, C).categ ELSE @,
     !.description_ecommerce = IF e.has_ecom /\ DescHtml(d) # NoText
                               THEN DescHtml(d) ELSE @]

BaseVals(c, d, old, C, e) ==
  [old EXCEPT
     !.standard_price = IF CostOf(d).kind # "none" THEN CostOf(d).v ELSE @,
     !.categ = IF CategStep(c, d, C).categ # NoCat
               THEN CategStep(c, d, C).categ ELSE @,
     !.description_ecommerce = IF e.has_ecom /\ DescHtml(d) # NoText
                               THEN DescHtml(d) ELSE @]

\* _brand_notes_patch.py 42-49: the text for website_description
WebHtml(d) ==
  OrText(d.website_description, _as_html(OrText(d.description, d.description_sale)))

\* _brand_notes_patch.py 51-77: the row and its variants after the overlay
BrandNotes(d, old, e) ==
  [old EXCEPT
     !.website_description = IF e.has_web THEN WebHtml(d) ELSE @,
     !.description = NoText,
     !.description_sale = NoText,
     !.website_short_description = NoText,
     !.v = IF old.variants = 0 THEN @
           ELSE [description |-> NoText, description_sale |-> NoText,
                 website_short_description |-> NoText,
                 website_description |->
                   IF e.has_web THEN WebHtml(d) ELSE @.website_description]]

\* the field table with a row for a record that create has just added
Grown(F, n) == IF n > Len(F) THEN Append(F, DefaultFields) ELSE F

\* the fields and categories after one _upsert_product call whose record
\* part gave res: the base vals on res.tmpl, then the brand overlay on the
\* row that _find_template gives for the item
FieldsAfter(c, item, res, F, C, e) ==
  IF res.tmpl = 0 THEN [F |-> F, C |-> C]
  ELSE LET F1 == Grown(F, res.tmpl)
           F2 == [F1 EXCEPT ![res.tmpl] = BaseVals(c, item.data, @, C, e)]
           t == _find_template(c, item.sku, item.barcode, res.P, res.L)
       IN [F |-> IF t = 0 THEN F2
                 ELSE [F2 EXCEPT ![t] = BrandNotes(item.data, @, e)],
           C |-> CategStep(c, item.data, C).C]

\* -------------------------------------------------------- gallery overlay
\* _gallery_patch.py 7-13 on a list value: the non-empty entries
_to_list_images(v) == SelectSeq(v, LAMBDA u : u # NoUrl)

\* _gallery_patch.py 15-29 for a main URL that ends in an image extension
_derive_numbered_urls(main_url, max_images) ==
  IF main_url = NoUrl THEN <<>>
  ELSE LET sep == IF main_url.sep = "" THEN "_" ELSE main_url.sep
           start == IF main_url.num >= 1 THEN main_url.num + 1 ELSE 2
       IN IF start > max_images THEN <<>>
          ELSE [k \in 1..(max_images - start + 1) |->
                  [main_url EXCEPT !.sep = sep, !.num = start + k - 1]]

CleanUrls_keepRepeats(urls, main) ==
  SelectSeq(urls, LAMBDA u : u # NoUrl /\ u # main)

\* _gallery_patch.py 60-68: drop empties, the main URL and repetitions
CleanUrls(urls, main) ==
  Pick(urls, {k \in 1..Len(urls) :
                /\ urls[k] # NoUrl
                /\ urls[k] # main
                /\ \A j \in 1..(k - 1) : urls[j] # urls[k]})

\* the candidate gallery URLs of an item (_gallery_patch.py 45-68)
GalleryCandidates(item) ==
  LET explicit == _to_list_images(item.images)
      urls == IF explicit = <<>> /\ item.image_url # NoUrl
              THEN _derive_numbered_urls(item.image_url, MaxImages)
              ELSE explicit
  IN CleanUrls(urls, item.image_url)

\* _gallery_patch.py 70-74: the origin URLs of the vendor images on tmpl
ExistingByUrl(tmpl, I) ==
  {I[k].x_vendor_image_url : k \in {j \in 1..Len(I) : I[j].product_tmpl_id = tmpl}}

\* _gallery_patch.py 80-95: one image per candidate that is not yet on the
\* record and downloads; Image.create raises on an undecodable payload.
\* dl lists the URLs handed to _download_first_ok.
GalleryLoopFrom(existing_by_url, tmpl, clean, I, net) ==
  LET F[k \in 0..Len(clean)] ==
        IF k = 0 THEN [I |-> I, err |-> "none", dl |-> <<>>]
        ELSE LET prev == F[k-1]
                 url == clean[k]
                 got == [prev EXCEPT !.dl = Append(@, url)]
             IN IF prev.err # "none" THEN prev
                ELSE IF url \in existing_by_url THEN prev
                ELSE IF net[url] = "none" THEN got
                ELSE IF net[url] = "bad" THEN [got EXCEPT !.err = "image"]
                ELSE [got EXCEPT !.I = Append(@, [product_tmpl_id |-> tmpl,
                                                  x_vendor_image_url |-> url])]
  IN F[Len(clean)]

GalleryLoop_noExisting(tmpl, clean, I, net) ==
  GalleryLoopFrom({}, tmpl, clean, I, net)

GalleryLoop(tmpl, clean, I, net) ==
  GalleryLoopFrom(ExistingByUrl(tmpl, I), tmpl, clean, I, net)

\* the result of the base upsert with the image table added
WithImages(res, I, err) ==
  [P |-> res.P, L |-> res.L, I |-> I, tmpl |-> res.tmpl,
   was_created |-> res.was_created, err |-> err, dl |-> <<>>]

AfterGallery(res, g) == [WithImages(res, g.I, g.err) EXCEPT !.dl = g.dl]

\* _gallery_patch.py 36-99 after super returned res
GalleryOverlay(c, item, res, I, net, tmpl, clean) ==
  IF tmpl = 0 \/ clean = <<>> THEN WithImages(res, I, "none")
  ELSE AfterGallery(res, GalleryLoop(tmpl, clean, I, net))

AfterBase(c, item, res, I, net) ==
  IF res.err # "none" THEN WithImages(res, I, res.err)
  ELSE GalleryOverlay(c, item, res, I, net,
                      _find_template(c, item.sku, item.barcode, res.P, res.L),
                      GalleryCandidates(item))

\* VendorCatalogConfigGallery._upsert_product around the base upsert: the
\* records, links and images of one call.  FieldsAfter gives the other
\* fields of the same call.
_upsert_product(c, item, P, L, I, net) ==
  AfterBase(c, item, BaseUpsert(c, item, P, L), I, net)

\* the network as one upsert sees it: an outcome for each candidate URL
Nets(item) == [Range(GalleryCandidates(item)) -> Outcomes]

\* ------------------------------------------------------------------ state
VARIABLES
  products,      \* product.template rows: default_code, barcode
  pfields,       \* the other fields of the product.template rows
  cats,          \* product.category names
  links,         \* product.supplierinfo rows
  images,        \* product.image rows with x_vendor_image set
  logs,          \* vendor.catalog.log rows
  cfgrec,        \* per configuration: last_run, last_result, last_no_extra_images
  pc,            \* position of action_run_import
  cfg,           \* the configuration of the current run
  feed,          \* what the adapter returns in this run
  fetch_ok,      \* FALSE when the adapter raises in this run
  keys,          \* stats overlay: distinct feed keys
  pre_existing,  \* stats overlay: keys known before the run
  items,         \* base: the fetched list
  i,             \* base: items processed
  created, updated, skipped, details, commits,
  now,           \* run counter, used as the clock
  used,          \* items handed to all runs so far
  raised,        \* the last call of action_run_import ended with an error
  last,          \* outcome of the last _upsert_product call
  nrec0,         \* number of product rows when the run started
  bulk,          \* the adapter returns the long list
  env,           \* what the installation offers: fields of the schema, feeds
  tx,            \* the committed store, the store at the start of the run,
                 \* the interruptions so far
  call           \* a helper or adapter function under way outside a run

dbvars == <<products, pfields, cats, links, images, logs, cfgrec>>
mainvars == <<products, pfields, cats, links, images, logs, cfgrec, pc, cfg, feed, fetch_ok, keys,
          pre_existing, items, i, created, updated, skipped, details, commits,
          now, used, raised, last, nrec0, bulk, env, tx>>
vars == <<mainvars, call>>

\* no helper call is under way
NoCall == [fn |-> "none"]

\* the rows a commit makes durable
Stored(P, F, C, L, I) == [P |-> P, F |-> F, C |-> C, L |-> L, I |-> I]

NoCfg == [id |-> 0, vendor_id |-> NoVendor, map_by |-> "supplierinfo", batch_commit |-> 0,
          default_categ_id |-> NoCat]
NoLast == [item |-> 0, tmpl |-> 0, was_created |-> FALSE, err |-> "none",
           net |-> <<>>, vlinks |-> 0, dl |-> <<>>]

\* catalogs the import can find when it first runs: no supplier links, no
\* vendor images, barcodes pairwise distinct
SeedCatalogs ==
  { <<>>,
    <<[default_code |-> "A", barcode |-> ""], [default_code |-> "", barcode |-> "b1"]>> }

\* the locals of action_run_import outside a run
NoRun ==
  /\ cfg = NoCfg
  /\ feed = <<>>
  /\ fetch_ok = TRUE
  /\ keys = <<>>
  /\ pre_existing = {}
  /\ items = <<>>
  /\ i = 0
  /\ created = 0 /\ updated = 0 /\ skipped = 0 /\ details = <<>> /\ commits = 0
  /\ last = NoLast
  /\ nrec0 = 0

\* the locals are dropped when the call ends
ResetRun ==
  /\ cfg' = NoCfg
  /\ feed' = <<>>
  /\ fetch_ok' = TRUE
  /\ keys' = <<>>
  /\ pre_existing' = {}
  /\ items' = <<>>
  /\ i' = 0
  /\ created' = 0 /\ updated' = 0 /\ skipped' = 0 /\ details' = <<>>
  /\ commits' = 0
  /\ last' = NoLast
  /\ nrec0' = 0

InitRun ==
  /\ logs = <<>>
  /\ cfgrec = [c \in ConfigIds |-> [last_run |-> 0, last_result |-> <<>>,
                                    last_no_extra_images |-> 0]]
  /\ pc = "idle"
  /\ raised = FALSE
  /\ tx = [durable |-> Stored(products, pfields, cats, links, images),
           start |-> [P |-> <<>>, L |-> <<>>], crashes |-> 0]
  /\ NoRun

\* an installation with both description fields in its schema, a feed
\* without prices, categories and texts, and rows with default fields
PlainFields ==
  /\ pfields = [k \in 1..Len(products) |-> DefaultFields]
  /\ cats = {"All"}
  /\ env = [feeds |-> "plain", has_ecom |-> TRUE, has_web |-> TRUE]

InitStore ==
  /\ products \in SeedCatalogs
  /\ PlainFields
  /\ links = <<>>
  /\ images = <<>>
  /\ now = 0
  /\ used = 0
  /\ call = NoCall
  /\ InitRun

Init == InitStore /\ bulk = FALSE

\* interruptions of a run a behaviour may contain
MaxCrashes == 1

\* the same store with an adapter that may return the long list
InitLong == InitStore /\ bulk \in BOOLEAN

\* catalogs that other tools and users have filled: supplier links of the
\* configured vendors and of a third one in any combination, vendor images
\* already on a record.  One run of up to two items imports into each.
SeedLinkRows ==
  [partner_id : {"V", "X"}, product_tmpl_id : {1, 2}, product_code : {"A", "B"}]
SeedLinks == UNION {[1..n -> SeedLinkRows] : n \in 0..2}
SeedCatalog3 ==
  <<[default_code |-> "A", barcode |-> ""], [default_code |-> "", barcode |-> "b1"],
    [default_code |-> "C", barcode |-> ""]>>
SeedImages ==
  { <<[product_tmpl_id |-> 3, x_vendor_image_url |-> Url(2)]>>,
    <<[product_tmpl_id |-> 3, x_vendor_image_url |-> Url(3)]>> }

InitAny ==
  /\ \/ /\ products = SubSeq(SeedCatalog3, 1, 2)
        /\ links \in SeedLinks
        /\ images = <<>>
     \/ /\ products = SeedCatalog3
        /\ links = <<>>
        /\ images \in SeedImages
  /\ PlainFields
  /\ now = MaxRuns - 1
  /\ used = MaxItems - 2
  /\ bulk = FALSE
  /\ call = NoCall
  /\ InitRun

\* a record that users have filled by hand, in an installation whose
\* schema may lack either description field; one run of one item that
\* carries prices and a category, or texts
SeedFields ==
  [list_price |-> 10, standard_price |-> 5, categ |-> "Old",
   description |-> Txt("d0"), description_sale |-> Txt("s0"),
   website_short_description |-> Txt("w0"), website_description |-> NoText,
   description_ecommerce |-> NoText, variants |-> 1,
   v |-> [description |-> Txt("d0"), description_sale |-> Txt("s0"),
          website_short_description |-> Txt("w0"),
          website_description |-> NoText]]
SeedCats == {"All", "Old", "Known", "Default"}

InitFields ==
  /\ products = <<[default_code |-> "A", barcode |-> ""]>>
  /\ pfields = <<SeedFields>>
  /\ cats = SeedCats
  /\ env \in [feeds : {"fields"}, has_ecom : BOOLEAN, has_web : BOOLEAN]
  /\ links = <<>>
  /\ images = <<>>
  /\ now = MaxRuns - 1
  /\ used = MaxItems - 1
  /\ bulk = FALSE
  /\ call = NoCall
  /\ InitRun

\* ----------------------------------------------------------- stats overlay
\* _import_stats_patch.py 20-25 and 46-47
PtField(map_by) == IF map_by = "barcode" THEN "barcode" ELSE "default_code"

\* _import_stats_patch.py 27-37
_key_of(item, map_by) ==
  IF map_by = "barcode"
  THEN IF item.barcode # "" THEN item.barcode
       ELSE IF item.sku # "" THEN item.sku ELSE item.vendor_code
  ELSE IF item.sku # "" THEN item.sku
       ELSE IF item.vendor_code # "" THEN item.vendor_code ELSE item.barcode

\* _import_stats_patch.py 49-53: the keys in order of first occurrence
FeedKeys(its, map_by) ==
  Pick([k \in 1..Len(its) |-> _key_of(its[k], map_by)],
       {k \in 1..Len(its) :
          /\ _key_of(its[k], map_by) # ""
          /\ \A j \in 1..(k - 1) : _key_of(its[j], map_by) # _key_of(its[k], map_by)})

\* set(PT.search([(pt_field, 'in', keys)]).mapped(pt_field))
Existing(P, pt_field, ks) ==
  {P[k][pt_field] : k \in {j \in 1..Len(P) : P[j][pt_field] \in Range(ks)}}

\* the lists an adapter can return with n items left to hand out, and a
\* list of failing items longer than the cap on detail lines
ShortFeeds(n) == UNION {[1..m -> Items] : m \in 0..n}
LongFeed == [k \in 1..(DetailCap + 1) |-> NoNameItem]
\* items with prices and a category, or with texts
NumPayloads ==
  { Payload(lp, co, pr, cat, NoText, NoText, NoText, NoText) :
      lp \in {NoNum, BadNum, Num(0), Num(20)},
      co \in {NoNum, BadNum, Num(-1), Num(0), Num(7)},
      pr \in {NoNum, Num(8)},
      cat \in {"", "Known", "Unknown"} }
TextPayloads ==
  { Payload(NoNum, NoNum, NoNum, "", de, dw, dd, ds) :
      de \in {NoText, [html |-> TRUE, text |-> "E"]},
      dw \in {NoText, [html |-> TRUE, text |-> "W"]},
      dd \in {NoText, Txt("D")},
      ds \in {NoText, Txt("S")} }
FieldItems ==
  { [Item(TRUE, s, "", NoUrl, <<>>) EXCEPT !.data = d] :
      s \in {"A", "C"}, d \in NumPayloads \cup TextPayloads }
RichFeeds == {<<it>> : it \in FieldItems}

\* items with a main image URL and no gallery field: file names with and
\* without separator, numbers from 0 to beyond the cap
MainUrls ==
  [base : {"p"}, sep : {"-", "_", ""}, num : 0..(MaxImages + 1), ext : {"jpg"}]
UrlFeeds == {<<Item(TRUE, "C", "", u, <<>>)>> : u \in MainUrls}

Feeds(n) ==
  IF bulk THEN {LongFeed}
  ELSE IF env.feeds = "fields" THEN RichFeeds
  ELSE IF env.feeds = "urls" THEN UrlFeeds
  ELSE ShortFeeds(n)

\* the configurations of a run; with a rich feed a default category may
\* be configured
RunConfigs ==
  IF env.feeds = "fields"
  THEN {[c EXCEPT !.default_categ_id = d] : c \in Configs, d \in {NoCat, "Default"}}
  ELSE Configs

\* what a run takes from the exploration budget MaxItems
RunCost(f) ==
  IF Len(f) = 0 THEN 1 ELSE IF Len(f) > MaxItems THEN MaxItems ELSE Len(f)

\* action_run_import of the stats overlay up to the call of super (39-65):
\* fetch for the key snapshot; a failing fetch gives no keys.  The adapter
\* answers both fetches of a run alike.
StartRun ==
  /\ pc = "idle"
  /\ now < MaxRuns
  /\ used < MaxItems
  /\ \E c \in RunConfigs :
       /\ cfg' = c
       /\ \/ /\ fetch_ok' = TRUE
             /\ feed' \in Feeds(MaxItems - used)
          \/ /\ fetch_ok' = FALSE
             /\ feed' = <<>>
       /\ keys' = FeedKeys(feed', c.map_by)
       /\ pre_existing' = Existing(products, PtField(c.map_by), keys')
  /\ pc' = "fetch"
  /\ now' = now + 1
  /\ nrec0' = Len(products)
  /\ tx' = [tx EXCEPT !.start = [P |-> products, L |-> links]]
  /\ raised' = FALSE
  /\ UNCHANGED <<call, products, pfields, cats, links, images, logs, cfgrec, items, i, created,
                 updated, skipped, details, commits, used, last, bulk, env>>

\* base action_run_import 126-141 when the checks or _fetch_items raise:
\* the error leaves both action_run_import frames
BaseFetchFail_stamped ==
  /\ pc = "fetch"
  /\ ~fetch_ok
  /\ pc' = "idle"
  /\ raised' = TRUE
  /\ used' = used + 1
  /\ cfgrec' = [cfgrec EXCEPT ![cfg.id] = [@ EXCEPT !.last_run = now]]
  /\ ResetRun
  /\ UNCHANGED <<call, products, pfields, cats, links, images, logs, now, bulk, env, tx>>

BaseFetchFail ==
  /\ pc = "fetch"
  /\ ~fetch_ok
  /\ pc' = "idle"
  /\ raised' = TRUE
  /\ used' = used + 1
  /\ ResetRun
  /\ UNCHANGED <<call, products, pfields, cats, links, images, logs, cfgrec, now, bulk, env, tx>>

\* base action_run_import 138-141
BaseFetchOk ==
  /\ pc = "fetch"
  /\ fetch_ok
  /\ pc' = "loop"
  /\ items' = feed
  /\ used' = used + RunCost(feed)
  /\ UNCHANGED <<call, products, pfields, cats, links, images, logs, cfgrec, cfg, feed, fetch_ok,
                 keys, pre_existing, i, created, updated, skipped, details,
                 commits, now, raised, last, nrec0, bulk, env, tx>>

\* the identifier of a detail line (152)
DetailCode(raw) ==
  IF raw.sku # "" THEN raw.sku
  ELSE IF raw.barcode # "" THEN raw.barcode ELSE "N/A"

\* 154: a commit follows the n-th item
CommitDue_everyItem(n, batch) == batch # 0

CommitDue(n, batch) == batch # 0 /\ n % batch = 0

\* one turn of the loop 142-155
ProcessItem ==
  /\ pc = "loop"
  /\ i < Len(items)
  /\ LET raw == items[i + 1]
     IN \E net \in Nets(raw) :
          \E res \in {_upsert_product(cfg, raw, products, links, images, net)} :
             /\ products' = res.P
             /\ \E fr \in {FieldsAfter(cfg, raw, res, pfields, cats, env)} :
                  /\ pfields' = fr.F
                  /\ cats' = fr.C
                  /\ tx' = IF CommitDue(i + 1, cfg.batch_commit)
                           THEN [tx EXCEPT !.durable =
                                   Stored(res.P, fr.F, fr.C, res.L, res.I)]
                           ELSE tx
             /\ links' = res.L
             /\ images' = res.I
             /\ last' = [item |-> i + 1, tmpl |-> res.tmpl,
                         was_created |-> res.was_created, err |-> res.err,
                         net |-> net, dl |-> res.dl,
                         vlinks |-> Cardinality({k \in 1..Len(links) :
                                       /\ links[k].partner_id = cfg.vendor_id
                                       /\ links[k].product_tmpl_id = res.tmpl})]
             /\ IF res.err = "none"
                THEN /\ created' = IF res.was_created THEN created + 1 ELSE created
                     /\ updated' = IF res.was_created THEN updated ELSE updated + 1
                     /\ UNCHANGED <<skipped, details>>
                ELSE /\ skipped' = skipped + 1
                     /\ details' = Append(details, [kind |-> "error",
                                                    code |-> DetailCode(raw),
                                                    err |-> res.err])
                     /\ UNCHANGED <<created, updated>>
  /\ i' = i + 1
  /\ commits' = IF CommitDue(i + 1, cfg.batch_commit)
                THEN commits + 1 ELSE commits
  /\ UNCHANGED <<call, logs, cfgrec, pc, cfg, feed, fetch_ok, keys, pre_existing,
                 items, now, used, raised, nrec0, bulk, env>>

Head200(s) == IF Len(s) <= DetailCap THEN s ELSE SubSeq(s, 1, DetailCap)

\* the text "Total: t | Creados: c | Actualizados: u | Fallidos: f" and,
\* when nx >= 0, " | Sin imagen extra: nx"
Summary(t, c, u, f, nx) ==
  [kind |-> "summary", total |-> t, created |-> c, updated |-> u,
   failed |-> f, no_extra |-> nx]

\* the for loop of 142 ends when the list is exhausted
LoopEnds_onFailure(n, its, failed) == n = Len(its) \/ failed > 0

LoopEnds(n, its, failed) == n = Len(its)

\* base action_run_import 157-179 with the create overlay of
\* _log_no_extra_patch.py, which derives notes from the counts
BaseFinish ==
  /\ pc = "loop"
  /\ LoopEnds(i, items, skipped)
  /\ LET total == Len(items)
         msg_line == Summary(total, created, updated, skipped, -1)
     IN /\ cfgrec' = [cfgrec EXCEPT ![cfg.id] =
                        [@ EXCEPT !.last_run = now,
                                  !.last_result = <<msg_line>> \o Head200(details)]]
        /\ logs' = Append(logs, [config_id |-> cfg.id, run_date |-> now,
                                 total |-> total, created |-> created,
                                 updated |-> updated, skipped |-> skipped,
                                 no_extra_images |-> 0,
                                 notes |-> Summary(total, created, updated, skipped, 0)])
  /\ pc' = "reconcile"
  /\ UNCHANGED <<call, products, pfields, cats, links, images, cfg, feed, fetch_ok, keys,
                 pre_existing, items, i, created, updated, skipped, details,
                 commits, now, used, raised, last, nrec0, bulk, env, tx>>

Max0(x) == IF x < 0 THEN 0 ELSE x
CountSeq(s, Test(_)) == Cardinality({k \in 1..Len(s) : Test(s[k])})

\* _import_stats_patch.py 101-129: the rewritten first line
ReconciledLine_keepUpdated(first, tail, ks, pre, post, stats_nx) ==
  LET soft == CountSeq(tail, LAMBDA ln : ln.kind = "error" /\ ln.err = "image")
      failed_real == Max0(first.failed - soft)
      success == Max0(first.total - failed_real)
      fresh == CountSeq(ks, LAMBDA k : k \notin pre /\ k \in post)
  IN Summary(first.total, IF fresh > success THEN success ELSE fresh,
             first.updated, failed_real, stats_nx + soft)

ReconciledLine_noSoft(first, tail, ks, pre, post, stats_nx) ==
  LET success == Max0(first.total - first.failed)
      fresh == CountSeq(ks, LAMBDA k : k \notin pre /\ k \in post)
      created_real == IF fresh > success THEN success ELSE fresh
  IN Summary(first.total, created_real, Max0(success - created_real),
             first.failed, stats_nx)

ReconciledLine(first, tail, ks, pre, post, stats_nx) ==
  LET soft == CountSeq(tail, LAMBDA ln : ln.kind = "error" /\ ln.err = "image")
      gskip == CountSeq(tail, LAMBDA ln : ln.kind = "gallery_skip")
      total == first.total
      failed_base == first.failed
      failed_real == Max0(failed_base - soft)
      success == Max0(total - failed_real)
      fresh == CountSeq(ks, LAMBDA k : k \notin pre /\ k \in post)
      created_real == IF ks = <<>> THEN 0
                      ELSE IF fresh > success THEN success ELSE fresh
      updated_real == Max0(success - created_real)
      no_extra == stats_nx + soft + gskip
  IN Summary(total, created_real, updated_real, failed_real, no_extra)

\* stats overlay after super returned (67-135)
Reconcile ==
  /\ pc = "reconcile"
  /\ LET lines == cfgrec[cfg.id].last_result
         first == lines[1]
         tail == Tail(lines)
         post_existing == Existing(products, PtField(cfg.map_by), keys)
         line == ReconciledLine(first, tail, keys, pre_existing, post_existing, 0)
     IN cfgrec' = [cfgrec EXCEPT ![cfg.id] =
                     [@ EXCEPT !.last_no_extra_images = line.no_extra,
                               !.last_result = <<line>> \o tail]]
  /\ pc' = "done"
  /\ UNCHANGED <<call, products, pfields, cats, links, images, logs, cfg, feed, fetch_ok, keys,
                 pre_existing, items, i, created, updated, skipped, details,
                 commits, now, used, raised, last, nrec0, bulk, env, tx>>

\* _import_stats_patch.py 135: the call returns and its locals are gone
Return ==
  /\ pc = "done"
  /\ pc' = "idle"
  /\ ResetRun
  /\ tx' = [tx EXCEPT !.durable = Stored(products, pfields, cats, links, images)]
  /\ UNCHANGED <<call, products, pfields, cats, links, images, logs, cfgrec, now,
                 used, raised, bulk, env>>

\* the server process dies inside the loop 142-155: the transaction is
\* gone and the store is what the last commit left; the job (configuration
\* and feed) is still scheduled
Crash ==
  /\ pc = "loop"
  /\ tx.crashes < MaxCrashes
  /\ pc' = "crashed"
  /\ products' = tx.durable.P
  /\ pfields' = tx.durable.F
  /\ cats' = tx.durable.C
  /\ links' = tx.durable.L
  /\ images' = tx.durable.I
  /\ tx' = [tx EXCEPT !.crashes = @ + 1]
  /\ keys' = <<>>
  /\ pre_existing' = {}
  /\ items' = <<>>
  /\ i' = 0
  /\ created' = 0 /\ updated' = 0 /\ skipped' = 0 /\ details' = <<>>
  /\ commits' = 0
  /\ last' = NoLast
  /\ nrec0' = 0
  /\ UNCHANGED <<call, logs, cfgrec, cfg, feed, fetch_ok, now, used, raised, bulk, env>>

\* the interrupted job runs again on the same feed: the stats overlay up to
\* the call of super, as in StartRun
Rerun ==
  /\ pc = "crashed"
  /\ pc' = "fetch"
  /\ keys' = FeedKeys(feed, cfg.map_by)
  /\ pre_existing' = Existing(products, PtField(cfg.map_by), keys')
  /\ now' = now + 1
  /\ nrec0' = Len(products)
  /\ raised' = FALSE
  /\ UNCHANGED <<call, products, pfields, cats, links, images, logs, cfgrec, cfg,
                 feed, fetch_ok, items, i, created, updated, skipped, details,
                 commits, used, last, bulk, env, tx>>

Next ==
  \/ StartRun
  \/ BaseFetchFail
  \/ BaseFetchOk
  \/ ProcessItem
  \/ BaseFinish
  \/ Reconcile
  \/ Return

Spec == Init /\ [][Next]_vars
SpecLong == InitLong /\ [][Next]_vars
SpecAny == InitAny /\ [][Next]_vars
SpecFields == InitFields /\ [][Next]_vars

\* one run of one item with a main image URL on an empty catalog
InitUrls ==
  /\ products = <<>>
  /\ pfields = <<>>
  /\ cats = {"All"}
  /\ env = [feeds |-> "urls", has_ecom |-> TRUE, has_web |-> TRUE]
  /\ links = <<>>
  /\ images = <<>>
  /\ now = MaxRuns - 1
  /\ used = MaxItems - 1
  /\ bulk = FALSE
  /\ call = NoCall
  /\ InitRun

SpecUrls == InitUrls /\ [][Next]_vars

\* runs that may be interrupted
NextCrash ==
  \/ Next
  \/ Crash
  \/ Rerun

\* one job on a seed catalog, interrupted at most MaxCrashes times
InitCrash ==
  /\ products \in SeedCatalogs
  /\ PlainFields
  /\ links = <<>>
  /\ images = <<>>
  /\ now = MaxRuns - 1
  /\ used = 0
  /\ bulk = FALSE
  /\ call = NoCall
  /\ InitRun

SpecCrash == InitCrash /\ [][NextCrash]_vars

TypeOK ==
  /\ pc \in {"idle", "fetch", "loop", "reconcile", "done", "crashed"}
  /\ (pc = "loop" => i \in 0..Len(items))
  /\ created + updated + skipped = i

\* ------------------------------------------------------------------ claims
\* a step of the loop: one call of _upsert_product on items[i + 1]
UpsertStep == pc = "loop" /\ pc' = "loop" /\ i' = i + 1

ValidItem(item) == item.name /\ (item.sku # "" \/ item.barcode # "")

LinksOf(L, vendor, tmpl) ==
  {k \in 1..Len(L) : L[k].partner_id = vendor /\ L[k].product_tmpl_id = tmpl}

\* C2: starting from a catalog without supplier links, after any sequence
\* of import runs no record carries two supplier links with the same
\* product_code, whichever configurations and vendors ran.
C2_OneLinkPerCode ==
  \A j, k \in 1..Len(links) :
     (/\ j # k
      /\ links[j].product_tmpl_id = links[k].product_tmpl_id
      /\ links[j].product_code = links[k].product_code) => FALSE

\* vendor W imported sku A after vendor V had created the record and its
\* link: the link now belongs to W and is still the only one
C2_Witness ==
  /\ Len(logs) = 1 /\ logs[1].config_id = 1 /\ logs[1].created = 1
  /\ products = <<[default_code |-> "A", barcode |-> ""]>>
  /\ pc = "loop" /\ cfg.vendor_id = "W" /\ i = 1 /\ last.err = "none"
  /\ links = <<[partner_id |-> "W", product_tmpl_id |-> 1, product_code |-> "A"]>>

\* the order C3 states, written over the sets of matches
C3_Expected(vendor, sku, barcode) ==
  LET a == {k \in 1..Len(links) : links[k].partner_id = vendor
                                    /\ links[k].product_code = sku}
      b == {k \in 1..Len(links) : links[k].product_code = sku}
      c == {r \in 1..Len(products) : products[r].default_code = sku}
      d == {r \in 1..Len(products) : products[r].barcode = barcode}
  IN IF sku # "" /\ vendor # NoVendor /\ a # {} THEN links[Min(a)].product_tmpl_id
     ELSE IF sku # "" /\ b # {} THEN links[Min(b)].product_tmpl_id
     ELSE IF sku # "" /\ c # {} THEN Min(c)
     ELSE IF barcode # "" /\ d # {} THEN Min(d)
     ELSE 0

C3_OrderHolds ==
  \A vendor \in Vendors \cup {NoVendor}, sku \in {"", "A", "B", "C"},
     barcode \in {"", "b1"} :
     _find_template([id |-> 0, vendor_id |-> vendor, map_by |-> "supplierinfo",
                     batch_commit |-> 0, default_categ_id |-> NoCat],
                    sku, barcode, products, links)
       = C3_Expected(vendor, sku, barcode)

\* an upsert whose sku has a supplier link while another record owns the
\* item's barcode resolves to the link's record and leaves the other alone
C3_LinkBeatsBarcode ==
  LET item == items[i + 1]
      R1 == C3_Expected(cfg.vendor_id, item.sku, "")
      R2 == ByBarcode(item.barcode, products)
  IN (/\ UpsertStep /\ cfg.map_by = "supplierinfo" /\ ValidItem(item)
      /\ item.sku # ""
      /\ \E k \in 1..Len(links) : links[k].product_code = item.sku
      /\ R2 # 0 /\ R2 # R1)
     => /\ last'.tmpl = R1
        /\ ~last'.was_created
        /\ Len(products') = Len(products)
        /\ products'[R2] = products[R2]
        /\ \A v \in Vendors :
              {links'[k] : k \in LinksOf(links', v, R2)}
                = {links[k] : k \in LinksOf(links, v, R2)}

\* C3: with map_by = supplierinfo, _find_template returns the first
\* non-empty match in the order (a) link of this vendor with the sku,
\* (b) link of any vendor with the sku, (c) record with that default_code,
\* (d) record with that barcode, and nothing when all four are empty; when
\* a link for the sku points to R1 and another record R2 owns the item's
\* barcode, the upsert works on R1 and leaves R2 unchanged.
C3_ResolutionOrder == [](C3_OrderHolds) /\ [][C3_LinkBeatsBarcode]_vars

\* vendor V's link for sku A points to record 1, record 2 owns barcode b1,
\* and the item (A, b1) has just been upserted on record 1
C3_Witness ==
  /\ pc = "loop" /\ cfg.id = 1 /\ i >= 1
  /\ items[i].sku = "A" /\ items[i].barcode = "b1"
  /\ last.item = i /\ last.tmpl = 1 /\ last.err = "none"
  /\ Len(products) >= 2 /\ products[2].barcode = "b1"
  /\ \E k \in LinksOf(links, "V", 1) : links[k].product_code = "A"

BarcodeUnique(P) ==
  \A j, k \in 1..Len(P) :
     (j # k /\ P[j].barcode # "") => P[j].barcode # P[k].barcode

\* a record whose barcode a step sets or changes gets a barcode that no
\* other record owned before the step
C4_WriteOnlyWhenFree ==
  \A r \in 1..Len(products') :
     (/\ products'[r].barcode # ""
      /\ (r > Len(products) \/ products'[r].barcode # products[r].barcode))
     => \A q \in 1..Len(products) :
           q # r => products[q].barcode # products'[r].barcode

\* C4: from a catalog in which no two records share a non-empty barcode,
\* no sequence of upserts makes two records share one; an upsert writes the
\* item's barcode on its record only when no other record owns it.
C4_BarcodeUniqueness == [](BarcodeUnique(products)) /\ [][C4_WriteOnlyWhenFree]_vars

\* item (A, b1) was upserted on record 1 while record 2 owns b1: record 1
\* got no barcode
C4_Witness ==
  /\ pc = "loop" /\ cfg.id = 2 /\ i >= 1
  /\ items[i].sku = "A" /\ items[i].barcode = "b1"
  /\ last.item = i /\ last.tmpl = 1 /\ last.err = "none"
  /\ products[1].barcode = "" /\ products[2].barcode = "b1"

\* the summary line of the current run's configuration
Line == cfgrec[cfg.id].last_result[1]
Kept == Tail(cfgrec[cfg.id].last_result)

\* a failing upsert is counted once, leaves one detail line naming the
\* item and the loop goes on; an item without name or without key fails
C5_FailureIsolated ==
  LET item == items[i + 1]
  IN UpsertStep =>
       /\ (~ValidItem(item) => last'.err # "none")
       /\ last'.err # "none" =>
             /\ skipped' = skipped + 1
             /\ created' = created /\ updated' = updated
             /\ Len(details') = Len(details) + 1
             /\ SubSeq(details', 1, Len(details)) = details
             /\ details'[Len(details')].code =
                   (IF item.sku # "" THEN item.sku
                    ELSE IF item.barcode # "" THEN item.barcode ELSE "N/A")
             /\ items' = items

C5_AllCounted ==
  pc \in {"reconcile", "done"} =>
     /\ i = Len(items)
     /\ Line.total = Len(items)
     /\ Line.created + Line.updated + Line.failed = Len(items)
     /\ created + updated + skipped = Len(items)
     /\ Len(Kept) <= 200
     /\ Len(Kept) = (IF skipped <= 200 THEN skipped ELSE 200)

\* C5: an exception raised by the upsert of one item (a missing name, no
\* sku and no barcode, or anything else) is caught, adds exactly one to
\* failed and one detail line naming the item, and the following items
\* are still processed; at the end total = N, created + updated + failed
\* = N and at most 200 detail lines are kept.
C5_PerItemIsolation == [](C5_AllCounted) /\ [][C5_FailureIsolated]_vars

\* a run of 201 failing items has ended: 201 failures, 200 lines kept
C5_Witness ==
  /\ pc = "done" /\ Len(items) = DetailCap + 1
  /\ Line.failed = DetailCap + 1 /\ Len(Kept) = DetailCap

\* C6: the reconciled line reports as created the number of records the
\* run created, as failed the number of items that raised a hard error
\* and as updated the remaining items.
C6_CountsAccurate ==
  pc = "done" =>
     LET made == Len(products) - nrec0
         hard == CountSeq(details, LAMBDA ln : ln.err # "image")
     IN /\ Line.created = made
        /\ Line.failed = hard
        /\ Line.updated = Len(items) - hard - made

\* C7: in the rewritten summary line created = min(number of distinct
\* feed keys absent from the pre-run snapshot and present in the post-run
\* one, success), updated = success - created with success = total -
\* failed, so the three add up to total and none is negative; with
\* pre-run keys {A} and a feed of keys A, B, C whose B item fails
\* validation the line reads total 3, created 1, updated 1, failed 1.
C7_ReconciledArithmetic ==
  pc = "done" =>
     LET field == IF cfg.map_by = "barcode" THEN "barcode" ELSE "default_code"
         post == {products[r][field] : r \in 1..Len(products)}
         fresh == Cardinality({k \in Range(keys) : k \notin pre_existing /\ k \in post})
         success == Line.total - Line.failed
     IN /\ Line.total = Len(items)
        /\ Line.created = (IF fresh < success THEN fresh ELSE success)
        /\ Line.updated = success - Line.created
        /\ Line.created + Line.updated + Line.failed = Line.total
        /\ Line.created >= 0 /\ Line.updated >= 0 /\ Line.failed >= 0
        /\ (/\ Len(items) = 3 /\ Range(keys) = {"A", "B", "C"}
            /\ pre_existing = {"A"}
            /\ \E j \in 1..3 : items[j] = NoNameItem)
           => /\ Line.total = 3 /\ Line.created = 1
              /\ Line.updated = 1 /\ Line.failed = 1

\* the scenario of C7 has run
C7_Witness ==
  /\ pc = "done" /\ Len(items) = 3 /\ Range(keys) = {"A", "B", "C"}
  /\ pre_existing = {"A"} /\ items[2] = NoNameItem
  /\ Line.created = 1 /\ Line.updated = 1 /\ Line.failed = 1

\* C8: the items whose detail line reports an undecodable image are taken
\* out of failed and counted once each in no_extra_images: reconciled
\* failed = raw failed - number of such lines, never below 0.
C8_SoftReclassified ==
  pc = "done" =>
     LET soft == Cardinality({k \in 1..Len(Kept) : Kept[k].err = "image"})
     IN /\ soft = Cardinality({k \in 1..Len(details) : details[k].err = "image"})
        /\ Line.failed = skipped - soft
        /\ Line.failed >= 0
        /\ Line.no_extra = soft
        /\ cfgrec[cfg.id].last_no_extra_images = soft

\* a run with one hard and one soft failure has been reconciled
C8_Witness ==
  /\ pc = "done" /\ skipped = 2
  /\ Line.failed = 1 /\ Line.no_extra = 1

\* C9: the log record of a run carries the reconciled counts of the first
\* line of last_result, and the run created exactly one log record.
C9_LogCarriesReconciled ==
  pc = "done" =>
     LET mine == {k \in 1..Len(logs) : logs[k].run_date = now}
     IN /\ Cardinality(mine) = 1
        /\ \A k \in mine :
              /\ logs[k].config_id = cfg.id
              /\ logs[k].created = Line.created
              /\ logs[k].updated = Line.updated
              /\ logs[k].skipped = Line.failed
              /\ logs[k].no_extra_images = Line.no_extra

C10_FetchFailStep ==
  (pc = "fetch" /\ ~fetch_ok) =>
     /\ pc' = "idle" /\ raised'
     /\ i = 0 /\ last = NoLast
     /\ UNCHANGED dbvars

C10_SnapshotStep ==
  (pc = "idle" /\ pc' = "fetch") => UNCHANGED dbvars

\* C10: when fetching the item list raises, the run processes no item,
\* changes no record, supplier link or image, creates no log record,
\* leaves last_run and last_result as they were, and the error reaches
\* the caller.
C10_FatalFetch == [][C10_FetchFailStep /\ C10_SnapshotStep]_vars

\* a run whose fetch failed, after a run that had completed
C10_Witness ==
  /\ pc = "idle" /\ raised /\ now = 2
  /\ Len(logs) = 1 /\ logs[1].run_date = 1
  /\ \A c \in ConfigIds : cfgrec[c].last_run # 2

\* the second of two calls in a row with the same valid item
C1_SecondCall ==
  /\ UpsertStep /\ i >= 1 /\ last.item = i
  /\ items[i + 1] = items[i] /\ ValidItem(items[i])

VendorSet(item) == cfg.vendor_id # NoVendor /\ item.sku # ""

NoImageTwice(I) == \A j, k \in 1..Len(I) : I[j] = I[k] => j = k

\* what C1 says of the records, of the links and of the resolved record
C1_RecordAndLinks ==
  LET n1 == Cardinality(LinksOf(links, cfg.vendor_id, last.tmpl))
      n2 == Cardinality(LinksOf(links', cfg.vendor_id, last'.tmpl))
  IN /\ Len(products') = Len(products)
     /\ last'.tmpl = last.tmpl
     /\ ~last'.was_created
     /\ n2 = n1

ExistingStep == UpsertStep /\ last'.err = "none" /\ ~last'.was_created

HasDescription(d) ==
  DescHtml(d) # NoText

LegacyEmpty(f) ==
  /\ f.description = NoText
  /\ f.description_sale = NoText
  /\ f.website_short_description = NoText

DescriptionFields ==
  {"website_description", "description_ecommerce", "description",
   "description_sale", "website_short_description"}

\* C11: after every upsert of an item that carries a non-empty description
\* the legacy fields description, description_sale and
\* website_short_description are empty on the record and on its variants,
\* and exactly one description field of the record is non-empty.  Stated
\* for installations whose schema has both website_description and
\* description_ecommerce.
C11_SingleSource ==
  [][UpsertStep /\ last'.err = "none" /\ HasDescription(items[i + 1].data)
                /\ env.has_ecom /\ env.has_web
     => LET f == pfields'[last'.tmpl]
        IN /\ LegacyEmpty(f)
           /\ (f.variants > 0 => LegacyEmpty(f.v))
           /\ Cardinality({k \in DescriptionFields : f[k] # NoText}) = 1]_vars

\* C12: an upsert onto an existing record leaves the record's list_price as
\* it was when the item omits list_price or gives it as zero or empty.
C12_SalePriceFrame ==
  [][ExistingStep /\ _robust_float(items[i + 1].data.list_price) \in {NoNum, Num(0)}
     => pfields'[last'.tmpl].list_price = pfields[last'.tmpl].list_price]_vars

\* an item with list_price zero was upserted onto the hand-priced record
C12_Witness ==
  /\ pc = "loop" /\ i = 1
  /\ last.err = "none" /\ ~last.was_created
  /\ items[1].data.list_price = Num(0)
  /\ pfields[last.tmpl].list_price = SeedFields.list_price

\* C13: an upsert writes standard_price from the item's cost, else price,
\* only if the normalized value is greater than 0; otherwise an existing
\* record keeps its cost.
C13_CostGuard ==
  [][ExistingStep
     => LET v == CostOf(items[i + 1].data)
        IN pfields'[last'.tmpl].standard_price =
             IF v.kind = "num" /\ v.v > 0 THEN v.v
             ELSE pfields[last'.tmpl].standard_price]_vars

\* C14: when the item's category matches no existing category the upsert
\* assigns the configured default category, and without one it leaves the
\* record's category as it was and creates no category.
C14_CategoryFallback ==
  [][ExistingStep /\ items[i + 1].data.category # ""
                  /\ items[i + 1].data.category \notin cats
     => /\ cats' = cats
        /\ pfields'[last'.tmpl].categ =
             IF cfg.default_categ_id # NoCat THEN cfg.default_categ_id
             ELSE pfields[last'.tmpl].categ]_vars

\* -------------------------------------------------------------------- C15
\* C15: with identity-key priority barcode the record that has the item's
\* barcode is the one resolved, before default_code and before any supplier
\* link; with priority default_code the record that has the item's sku as
\* default_code is the one resolved.
C15_PriorityFirst ==
  [][UpsertStep /\ last'.err = "none"
     => LET item == items[i + 1]
            by_barcode == ByBarcode(item.barcode, products)
            by_code == ByDefaultCode(item.sku, products)
        IN /\ (cfg.map_by = "barcode" /\ by_barcode # 0
                 => last'.tmpl = by_barcode)
           /\ (cfg.map_by = "default_code" /\ by_code # 0
                 => last'.tmpl = by_code)]_vars

\* -------------------------------------------------------------------- C17
\* the n-th item is one of those numbered B, 2B, 3B, ...
Boundary(n, B) == \E k \in 1..n : k * B = n

C17_Count ==
  /\ (pc \in {"loop", "reconcile", "done"} /\ cfg.batch_commit > 0
        => commits = i \div cfg.batch_commit)
  /\ (pc \in {"reconcile", "done"} => i = Len(items))

C17_Step ==
  UpsertStep /\ cfg.batch_commit > 0
    => /\ last'.item = i + 1
       /\ IF Boundary(i + 1, cfg.batch_commit)
          THEN /\ commits' = commits + 1
               /\ tx'.durable = Stored(products', pfields', cats', links', images')
          ELSE /\ commits' = commits
               /\ tx'.durable = tx.durable

\* C17: with batch size B > 0 and N items a commit follows exactly the
\* items numbered B, 2B, 3B, ... <= N, whether they succeeded or failed, so
\* floor(N / B) commits occur inside the loop, and every item is processed
\* once, in feed order.
C17_CommitBatching == [](C17_Count) /\ [][C17_Step]_vars

\* a commit followed the second item of a run with batch size 2, and that
\* item had failed
C17_Witness ==
  /\ pc = "loop" /\ i = 2 /\ cfg.batch_commit = 2
  /\ last.item = 2 /\ last.err # "none"
  /\ commits = 1
  /\ tx.durable.P = products

\* -------------------------------------------------------------------- C16
\* the records and links an uninterrupted run of the items its leaves
RECURSIVE RunAll(_, _, _, _)
RunAll(c, its, P, L) ==
  IF its = <<>> THEN [P |-> P, L |-> L]
  ELSE RunAll(c, Tail(its), BaseUpsert(c, Head(its), P, L).P,
              BaseUpsert(c, Head(its), P, L).L)

\* no two records share a non-empty default_code or a non-empty barcode
NoDuplicateRecord(P) ==
  \A j, k \in 1..Len(P) :
    j # k => /\ (P[j].default_code # "" => P[j].default_code # P[k].default_code)
             /\ (P[j].barcode # "" => P[j].barcode # P[k].barcode)

NoDuplicateLink(L) == \A j, k \in 1..Len(L) : L[j] = L[k] => j = k

\* C16: when a run is interrupted after any item (the changes since the
\* last commit are lost, the committed ones stay) and the same feed is run
\* again to its end, the catalog has the same records and the same supplier
\* links as after an uninterrupted run, and the second run duplicates no
\* record and no link.
C16_RerunConverges ==
  pc = "done" /\ tx.crashes > 0
    => /\ products = RunAll(cfg, items, tx.start.P, tx.start.L).P
       /\ links = RunAll(cfg, items, tx.start.P, tx.start.L).L
       /\ (NoDuplicateRecord(tx.start.P) => NoDuplicateRecord(products))
       /\ NoDuplicateLink(links)

\* -------------------------------------------------------------------- C18
\* no two vendor images of one record have the same origin URL
DistinctOrigins(I) ==
  \A j, k \in 1..Len(I) :
    j # k /\ I[j].product_tmpl_id = I[k].product_tmpl_id
      => I[j].x_vendor_image_url # I[k].x_vendor_image_url

\* what one gallery synchronization downloads and creates
C18_SkipStep ==
  UpsertStep
    => LET item == items[i + 1]
           stored == ExistingByUrl(last'.tmpl, images)
           dl == last'.dl
       IN /\ \A k \in 1..Len(dl) :
               /\ dl[k] # item.image_url
               /\ dl[k] \notin stored
               /\ \A j \in 1..(k - 1) : dl[j] # dl[k]
          /\ SubSeq(images', 1, Len(images)) = images
          /\ \A k \in (Len(images) + 1)..Len(images') :
               /\ images'[k].product_tmpl_id = last'.tmpl
               /\ images'[k].x_vendor_image_url \in Range(dl)

\* C18: from records whose vendor images have pairwise distinct origin
\* URLs, no two vendor images of a record share an origin URL after any
\* gallery synchronizations; a candidate equal to the main URL, repeated
\* among the candidates or stored as origin URL of a vendor image of the
\* record is not downloaded and creates no image.
C18_VendorImageUnique == [](DistinctOrigins(images)) /\ [][C18_SkipStep]_vars

\* the gallery item (main URL 1, candidates 1, 2, 2) was upserted onto a
\* record that already had the vendor image of URL 2: nothing was
\* downloaded and the record still has that one image
C18_Witness ==
  /\ pc = "loop" /\ last.item >= 1 /\ items[last.item] = GalleryItem
  /\ last.err = "none" /\ last.dl = <<>>
  /\ ExistingByUrl(last.tmpl, images) = {Url(2)}
  /\ Cardinality({k \in 1..Len(images) : images[k].product_tmpl_id = last.tmpl}) = 1

\* -------------------------------------------------------------------- C19
\* C19: for an item whose record upsert succeeds, a gallery URL that gives
\* no content or a payload that is not an image creates no image, the
\* upsert does not raise and the item is not counted as failed.
C19_ImageFailureSoft ==
  [][UpsertStep /\ BaseUpsert(cfg, items[i + 1], products, links).err = "none"
     => /\ last'.err = "none"
        /\ skipped' = skipped
        /\ \A k \in (Len(images) + 1)..Len(images') :
             last'.net[images'[k].x_vendor_image_url] = "img"]_vars

\* -------------------------------------------------------------------- C20
\* the main URL with its number replaced by n+1, n+2, ... up to the cap
NumberedAfter(u, cap) ==
  IF u.num >= cap THEN <<>>
  ELSE [k \in 1..(cap - u.num) |-> [u EXCEPT !.num = u.num + k]]

\* C20: for an item without gallery fields whose main URL ends in an
\* optional separator, a number n and an image extension, the candidates
\* are the main URL with the number replaced by n+1, n+2, ... up to 8, with
\* the separator of the main URL (none when it has none) and its extension,
\* and without the main URL.
C20_Derivation ==
  [][UpsertStep /\ last'.err = "none"
       /\ items[i + 1].images = <<>> /\ items[i + 1].image_url # NoUrl
     => /\ GalleryCandidates(items[i + 1])
             = NumberedAfter(items[i + 1].image_url, MaxImages)
        /\ DOMAIN last'.net
             = Range(NumberedAfter(items[i + 1].image_url, MaxImages))
        /\ items[i + 1].image_url \notin DOMAIN last'.net]_vars

\* ====================================================== helper functions
\* The specifications below run one helper or adapter function on its own;
\* the store and the import stay as EmptyStore puts them.
EmptyStore ==
  /\ products = <<>>
  /\ PlainFields
  /\ links = <<>>
  /\ images = <<>>
  /\ now = 0
  /\ used = 0
  /\ bulk = FALSE
  /\ InitRun

\* ---------------------------------------------------- _download_first_ok
\* a URL as urlsplit and parse_qs read it: whether the path contains
\* "getpicture", and the value of its action parameter
NoAction == "none"
NoDlUrl == [empty |-> TRUE, getpicture |-> FALSE, action |-> NoAction]
DlUrls ==
  [empty : {FALSE}, getpicture : BOOLEAN,
   action : {NoAction, "large", "normal", "thumb"}] \cup {NoDlUrl}

\* what requests.get gives: a successful response with a body, a successful
\* response without body, an unsuccessful status, an exception
Responses == {"ok", "empty", "status", "exc"}

_iter_getpicture_candidates_normalFirst(url) ==
  IF url.empty THEN <<>>
  ELSE IF ~url.getpicture THEN <<url>>
  ELSE <<url, [url EXCEPT !.action = "normal"], [url EXCEPT !.action = "large"],
         [url EXCEPT !.action = NoAction]>>

\* vendor_catalog.py 44-59
_iter_getpicture_candidates(url) ==
  IF url.empty THEN <<>>
  ELSE IF ~url.getpicture THEN <<url>>
  ELSE <<url, [url EXCEPT !.action = "large"], [url EXCEPT !.action = "normal"],
         [url EXCEPT !.action = NoAction]>>

InitDownload ==
  /\ EmptyStore
  /\ call \in [fn : {"_download_first_ok"}, url : DlUrls, reqs : {<<>>},
               outs : {<<>>}, state : {"running"}, body : {0}]

\* one turn of the loop 63-68: the next candidate is requested; a successful
\* non-empty response ends the call with its body
DownloadRequest ==
  /\ call.fn = "_download_first_ok"
  /\ call.state = "running"
  /\ Len(call.reqs) < Len(_iter_getpicture_candidates(call.url))
  /\ \E out \in Responses :
       call' = [call EXCEPT
                  !.reqs = Append(@, _iter_getpicture_candidates(call.url)[Len(@) + 1]),
                  !.outs = Append(@, out),
                  !.state = IF out = "ok" THEN "returned" ELSE "running",
                  !.body = IF out = "ok" THEN Len(call.reqs) + 1 ELSE 0]
  /\ UNCHANGED mainvars

\* 62 and 69: no URL or no candidate left, the call returns None
DownloadGiveUp ==
  /\ call.fn = "_download_first_ok"
  /\ call.state = "running"
  /\ Len(call.reqs) = Len(_iter_getpicture_candidates(call.url))
  /\ call' = [call EXCEPT !.state = "returned", !.body = 0]
  /\ UNCHANGED mainvars

NextDownload ==
  \/ DownloadRequest
  \/ DownloadGiveUp

SpecDownload == InitDownload /\ [][NextDownload]_vars

\* -------------------------------------------------------------------- C21
\* the order of requests the claim gives for a URL
C21_Expected(url) ==
  IF url.getpicture
  THEN <<url, [url EXCEPT !.action = "large"], [url EXCEPT !.action = "normal"],
         [url EXCEPT !.action = NoAction]>>
  ELSE <<url>>

MaxText == 5
Alphabet == {"a", " ", "/", ">", "(", ")"}
Texts == UNION {[1..n -> Alphabet] : n \in 0..MaxText}

\* 'Audio / Video (4 > 8 in)' and 'Single Category'
AudioVideo ==
  <<"A", "u", "d", "i", "o", " ", "/", " ", "V", "i", "d", "e", "o", " ",
    "(", "4", " ", ">", " ", "8", " ", "i", "n", ")">>
SingleCategory ==
  <<"S", "i", "n", "g", "l", "e", " ", "C", "a", "t", "e", "g", "o", "r", "y">>

\* str.strip for texts whose only white space is the blank
RECURSIVE LStrip(_)
LStrip(t) == IF t # <<>> /\ Head(t) = " " THEN LStrip(Tail(t)) ELSE t
RECURSIVE RStrip(_)
RStrip(t) ==
  IF t # <<>> /\ t[Len(t)] = " " THEN RStrip(SubSeq(t, 1, Len(t) - 1)) ELSE t
Strip(t) == RStrip(LStrip(t))

\* 19-20 and 24-25: the buffer becomes a segment unless it is blank
Flush(parts, buf) == IF Strip(buf) # <<>> THEN Append(parts, Strip(buf)) ELSE parts

\* 13-16: the depth after the character ch
DepthAfter(ch, depth) ==
  IF ch = "(" THEN depth + 1
  ELSE IF ch = ")" /\ depth > 0 THEN depth - 1 ELSE depth

\* 18: ' / ' starts at position pos (positions count from 1)
SlashAt(t, pos) == pos + 2 <= Len(t) /\ t[pos] = " " /\ t[pos + 1] = "/" /\ t[pos + 2] = " "

\* 23: '>' at position pos after a blank and before a blank or the end
GtAt(t, pos) ==
  t[pos] = ">" /\ pos > 1 /\ t[pos - 1] = " " /\ (pos = Len(t) \/ t[pos + 1] = " ")

\* the while loop 12-28 from position pos on
RECURSIVE ScanPath(_, _, _, _, _)
ScanPath(t, pos, parts, buf, depth) ==
  IF pos > Len(t) THEN Flush(parts, buf)
  ELSE IF DepthAfter(t[pos], depth) = 0 /\ SlashAt(t, pos)
       THEN ScanPath(t, pos + 3, Flush(parts, buf), <<>>, DepthAfter(t[pos], depth))
  ELSE IF DepthAfter(t[pos], depth) = 0 /\ GtAt(t, pos)
       THEN ScanPath(t, pos + 1, Flush(parts, buf), <<>>, DepthAfter(t[pos], depth))
  ELSE ScanPath(t, pos + 1, parts, Append(buf, t[pos]), DepthAfter(t[pos], depth))

\* _ecom_public_category_patch.py 4-31
_smart_split_ecom_path(text) ==
  IF ScanPath(text, 1, <<>>, <<>>, 0) # <<>> THEN ScanPath(text, 1, <<>>, <<>>, 0)
  ELSE <<Strip(text)>>

InitSplit ==
  /\ EmptyStore
  /\ call \in [fn : {"_smart_split_ecom_path"},
               text : Texts \cup {AudioVideo, SingleCategory},
               state : {"called"}, parts : {<<>>}]

\* the call returns its list
SplitReturn ==
  /\ call.fn = "_smart_split_ecom_path"
  /\ call.state = "called"
  /\ call' = [call EXCEPT !.state = "returned",
                          !.parts = _smart_split_ecom_path(call.text)]
  /\ UNCHANGED mainvars

NextSplit == SplitReturn

SpecSplit == InitSplit /\ [][NextSplit]_vars

\* -------------------------------------------------------------------- C22
\* the parenthesis depth before position pos
RECURSIVE DepthBefore(_, _)
DepthBefore(t, pos) ==
  IF pos <= 1 THEN 0 ELSE DepthAfter(t[pos - 1], DepthBefore(t, pos - 1))

\* a ' / ' or ' > ' token starts at position pos at depth 0
TokenAt(t, pos) ==
  /\ pos + 2 <= Len(t)
  /\ t[pos] = " " /\ t[pos + 1] \in {"/", ">"} /\ t[pos + 2] = " "
  /\ DepthBefore(t, pos) = 0

\* the pieces between the tokens, taken from left to right from position pos
RECURSIVE PiecesFrom(_, _, _)
PiecesFrom(t, pos, from) ==
  IF pos > Len(t) THEN <<SubSeq(t, from, Len(t))>>
  ELSE IF TokenAt(t, pos)
       THEN <<SubSeq(t, from, pos - 1)>> \o PiecesFrom(t, pos + 3, pos + 3)
       ELSE PiecesFrom(t, pos + 1, from)

C22_Expected(t) ==
  IF \E pos \in 1..Len(t) : TokenAt(t, pos)
  THEN SelectSeq([k \in 1..Len(PiecesFrom(t, 1, 1)) |-> Strip(PiecesFrom(t, 1, 1)[k])],
                 LAMBDA p : p # <<>>)
  ELSE <<Strip(t)>>

\* C22: _smart_split_ecom_path splits only at ' / ' or ' > ' tokens at
\* parenthesis depth 0, returns the trimmed non-empty segments from left to
\* right, and the trimmed input as one segment when no such token occurs.
C22_PathSplit ==
  call.state = "returned" => call.parts = C22_Expected(call.text)

\* ------------------------------------- _vc_get_or_create_public_category
\* calls of one behaviour
MaxCalls == 3

\* product.public.category rows: name, parent_id and website_id, 0 for an
\* empty Many2one; a row is known by its position
NoNode == 0
NoWebsite == 0
Websites == {NoWebsite, 1, 2}

\* the paths handed to the function, as texts
PathTexts ==
  { <<>>, <<"a">>, <<"b">>,
    <<"a", " ", "/", " ", "b">>, <<"a", " ", ">", " ", "b">>,
    <<"b", " ", "/", " ", "a">>, <<"a", " ", "/", " ", "a">>,
    <<"a", " ", "(", "b", " ", "/", " ", "a", ")">> }

\* 41-42 and 46-47: the website the domain and the values carry, none when
\* the model has no website_id or the configuration has no website
Scope(website, has_field) == IF has_field THEN website ELSE NoWebsite

FindNode_atRoot(T, name, parent, scope) ==
  FirstIdx(T, LAMBDA n : /\ n.name = name
                         /\ n.parent_id = NoNode
                         /\ (scope # NoWebsite => n.website_id = scope))

\* 40-43: Public.search(dom, limit=1), the row of lowest id
FindNode(T, name, parent, scope) ==
  FirstIdx(T, LAMBDA n : /\ n.name = name
                         /\ n.parent_id = parent
                         /\ (scope # NoWebsite => n.website_id = scope))

\* 44-49: the table and the node after the turn for one segment
NodeStep(T, name, parent, scope) ==
  IF FindNode(T, name, parent, scope) # 0
  THEN [T |-> T, node |-> FindNode(T, name, parent, scope)]
  ELSE [T |-> Append(T, [name |-> name, parent_id |-> parent, website_id |-> scope]),
        node |-> Len(T) + 1]

\* the for loop 39-49 from segment k on
RECURSIVE WalkPath(_, _, _, _, _)
WalkPath(T, segs, k, parent, scope) ==
  IF k > Len(segs) THEN [T |-> T, node |-> parent]
  ELSE WalkPath(NodeStep(T, segs[k], parent, scope).T, segs, k + 1,
                NodeStep(T, segs[k], parent, scope).node, scope)

\* _ecom_public_category_patch.py 36-50
_vc_get_or_create_public_category(T, path, website, has_field) ==
  WalkPath(T, _smart_split_ecom_path(path), 1, NoNode, Scope(website, has_field))

\* category trees in which no two rows share name, parent and website
SeedTrees ==
  { <<>>,
    <<[name |-> <<"a">>, parent_id |-> NoNode, website_id |-> NoWebsite]>>,
    <<[name |-> <<"a">>, parent_id |-> NoNode, website_id |-> 1],
      [name |-> <<"a">>, parent_id |-> NoNode, website_id |-> 2]>>,
    <<[name |-> <<"a">>, parent_id |-> NoNode, website_id |-> NoWebsite],
      [name |-> <<"b">>, parent_id |-> 1, website_id |-> NoWebsite]>> }

NoPathCall == [path |-> <<>>, website |-> NoWebsite, node |-> NoNode, made |-> 0]

InitCategory ==
  /\ EmptyStore
  /\ call \in [fn : {"_vc_get_or_create_public_category"}, tree : SeedTrees,
               has_field : BOOLEAN, calls : {0}, this : {NoPathCall},
               prev : {NoPathCall}]
  /\ (~call.has_field => \A k \in 1..Len(call.tree) : call.tree[k].website_id = NoWebsite)

\* one call by a configuration with the given website
PublicCategoryCall ==
  /\ call.fn = "_vc_get_or_create_public_category"
  /\ call.calls < MaxCalls
  /\ \E path \in PathTexts, website \in Websites :
       \E res \in {_vc_get_or_create_public_category(call.tree, path, website,
                                                     call.has_field)} :
         call' = [call EXCEPT
                    !.tree = res.T,
                    !.calls = @ + 1,
                    !.prev = call.this,
                    !.this = [path |-> path, website |-> website, node |-> res.node,
                              made |-> Len(res.T) - Len(call.tree)]]
  /\ UNCHANGED mainvars

NextCategory == PublicCategoryCall

SpecCategory == InitCategory /\ [][NextCategory]_vars

\* -------------------------------------------------------------------- C23
UniqueNodes(T) == \A j, k \in 1..Len(T) : T[j] = T[k] => j = k

\* the call repeats the path of the call before it
C23_Repeat ==
  /\ call.calls >= 2
  /\ call.this.path = call.prev.path
  /\ call.this.website = call.prev.website

\* C23: from a category tree in which no two nodes share name, parent and
\* website scope, no two nodes share them after any calls of
\* _vc_get_or_create_public_category with any paths; the second of two
\* calls with the same path creates no node and returns the same deepest
\* node.
C23_NodeIdempotence ==
  /\ UniqueNodes(call.tree)
  /\ C23_Repeat => call.this.made = 0 /\ call.this.node = call.prev.node

\* the path 'a / b' was walked twice for website 1: the first call made
\* both nodes, the second none
C23_Witness ==
  /\ C23_Repeat
  /\ call.this.path = <<"a", " ", "/", " ", "b">> /\ call.this.website = 1
  /\ call.prev.made = 2 /\ call.this.made = 0
  /\ call.this.node = call.prev.node /\ call.this.node # NoNode

\* -------------------------------------------------------------------- C24
\* the last item of the run had candidates left after cleaning, its upsert
\* succeeded and no download gave content
C24_LastItemNoImage ==
  /\ last.item >= 1 /\ last.item = Len(items)
  /\ last.err = "none" /\ last.tmpl # 0
  /\ GalleryCandidates(items[last.item]) # <<>>
  /\ \A u \in DOMAIN last.net : last.net[u] = "none"

\* C24: every item whose gallery is attempted and obtains zero images adds
\* one to the run's no_extra_images, so at the end of the run the count is
\* at least the number of such items; here for the last item of the run.
C24_NoExtraCounted ==
  pc = "done" /\ C24_LastItemNoImage
    => cfgrec[cfg.id].last_no_extra_images >= 1

\* ---------------------------------------------------- _request_with_retry
\* tokens: none, the one the call starts with, the one a login returns
NoToken == 0
ExpiredToken == 1
FreshToken == 2

Attempts == 6
Transient == {429, 500, 502, 503, 504}
Statuses == {200, 401, 404, 429, 503}
Excs == {"ReadTimeout", "RequestException"}
NoExc == "none"
Answers == [exc : {NoExc}, status : Statuses] \cup [exc : Excs, status : {0}]
LoginOutcomes == {"ok", "refused", "exc"}

\* 134, 139 and 129: the seconds slept after a failed attempt
Backoff_uncapped(attempt) == 2 ^ attempt
Backoff(attempt) == IF 2 ^ attempt < 30 THEN 2 ^ attempt ELSE 30

Slept(c) ==
  [c EXCEPT !.waits = Append(@, [after |-> Len(c.reqs), attempt |-> c.attempt,
                                 secs |-> Backoff(c.attempt)])]

\* the end of a turn of the loop 119: the next attempt, or 142-143 after the
\* sixth
NextAttempt(c) ==
  [c EXCEPT !.attempt = @ + 1,
            !.state = IF c.attempt + 1 = Attempts THEN "raised" ELSE "running"]

\* 132-141: a caught exception is remembered; the last attempt leaves the
\* loop, any other sleeps and goes on
Caught(c) ==
  IF c.attempt = Attempts - 1
  THEN [c EXCEPT !.last_exc = TRUE, !.state = "raised"]
  ELSE NextAttempt(Slept([c EXCEPT !.last_exc = TRUE]))

\* 81-96 as called from 125: the token of the box when it has one, a login
\* otherwise; RuntimeError leaves _request_with_retry, an exception of the
\* login request is caught at 137
_ensure_token(c, login) ==
  IF c.token # NoToken
  THEN NextAttempt([c EXCEPT !.hdr = c.token, !.relogin_used = TRUE])
  ELSE IF ~c.creds
  THEN [c EXCEPT !.state = "raised"]
  ELSE IF login = "ok"
  THEN NextAttempt([c EXCEPT !.logins = @ + 1, !.token = FreshToken,
                             !.hdr = FreshToken, !.relogin_used = TRUE])
  ELSE IF login = "refused"
  THEN [c EXCEPT !.logins = @ + 1, !.state = "raised"]
  ELSE Caught([c EXCEPT !.logins = @ + 1])

\* 120-131: what one answer does to the call
Answered(c, ans, login) ==
  IF ans.exc # NoExc THEN Caught(c)
  ELSE IF ans.status = 401 /\ c.box /\ ~c.relogin_used THEN _ensure_token(c, login)
  ELSE IF ans.status \in Transient THEN NextAttempt(Slept(c))
  ELSE IF ans.status >= 400 THEN Caught(c)
  ELSE [c EXCEPT !.state = "returned", !.ret = ans.status]

\* 373-387: the box holds the token given (or none), the headers carry it
RetryCalls ==
  {c \in [fn : {"_request_with_retry"}, box : BOOLEAN, creds : BOOLEAN,
          token : {NoToken, ExpiredToken}, hdr : {NoToken, ExpiredToken},
          attempt : {0}, relogin_used : {FALSE}, last_exc : {FALSE},
          reqs : {<<>>}, waits : {<<>>}, logins : {0}, state : {"running"},
          ret : {0}] :
     /\ c.hdr = c.token
     /\ ~c.box => (~c.creds /\ c.token = NoToken)}

InitRetry ==
  /\ EmptyStore
  /\ call \in RetryCalls

\* one turn of the loop 119-141: the request is sent with the current headers
\* and answered
RequestAttempt ==
  /\ call.fn = "_request_with_retry"
  /\ call.state = "running"
  /\ \E ans \in Answers, login \in LoginOutcomes :
       call' = Answered([call EXCEPT !.reqs = Append(@, [tok |-> call.hdr, ans |-> ans])],
                        ans, login)
  /\ UNCHANGED mainvars

NextRetry == RequestAttempt

\* the call runs on one thread and every request has a timeout (117): a turn
\* that can be taken is taken
SpecRetry == InitRetry /\ [][NextRetry]_vars /\ WF_vars(NextRetry)

\* -------------------------------------------------------------------- C25
\* the first request of the call that was answered 401
First401(k) ==
  /\ k \in 1..Len(call.reqs)
  /\ call.reqs[k].ans.status = 401
  /\ \A j \in 1..(k - 1) : call.reqs[j].ans.status # 401

\* C25: on a 401 answer with credentials available _request_with_retry logs
\* in again, the retry carries a token different from the rejected one, the
\* request is retried once, and a second 401 ends the call with an error and
\* no further request.
C25_ReloginOnce ==
  (call.fn = "_request_with_retry" /\ call.box /\ call.creds) =>
    \A k \in 1..Len(call.reqs) :
      (First401(k) /\ k < Len(call.reqs)) =>
        /\ call.logins >= 1
        /\ call.reqs[k + 1].tok # call.reqs[k].tok
        /\ call.reqs[k + 1].ans.status = 401 =>
             (Len(call.reqs) = k + 1 /\ call.state = "raised")

\* -------------------------------------------------------------------- C26
\* the seconds the claim gives for an attempt
C26_Seconds(attempt) == IF attempt >= 5 THEN 30 ELSE 2 ^ attempt

C26_Bounded ==
  call.fn = "_request_with_retry" =>
    /\ Len(call.reqs) <= 6
    /\ \A w \in 1..Len(call.waits) :
         /\ call.waits[w].secs <= 30
         /\ call.waits[w].secs = C26_Seconds(call.waits[w].after - 1)
    /\ \A k \in 1..(Len(call.reqs) - 1) :
         (call.reqs[k].ans.exc # NoExc \/ call.reqs[k].ans.status \in Transient) =>
           \E w \in 1..Len(call.waits) : call.waits[w].after = k
    /\ call.state \in {"running", "returned", "raised"}
    /\ call.state = "returned" =>
         /\ call.ret \in 200..299
         /\ call.ret = call.reqs[Len(call.reqs)].ans.status
         /\ call.ret \notin Transient

\* C26: for every sequence of answers and transport errors
\* _request_with_retry sends at most 6 requests, sleeps min(2^attempt, 30)
\* seconds before each retry after a 429/500/502/503/504 answer or a
\* transport error, and ends by returning an answer with a success status or
\* by raising; it never returns a 429/5xx answer.
C26_BoundedRetry == [](C26_Bounded) /\ <>(call.state # "running")

\* five failed attempts slept 1, 2, 4, 8 and 16 seconds and the sixth request
\* was answered 200 and returned
C26_Witness ==
  /\ call.fn = "_request_with_retry"
  /\ call.state = "returned" /\ call.ret = 200
  /\ Len(call.reqs) = 6
  /\ call.reqs[1].ans.status = 429 /\ call.reqs[2].ans.exc = "ReadTimeout"
  /\ call.reqs[5].ans.status = 503
  /\ [w \in 1..5 |-> call.waits[w].secs] = <<1, 2, 4, 8, 16>>

\* -------------------------------------------- _fetch_stockprice_resilient
MaxIds == 30
MinBatch == 10
BatchStep == 10
MaxBatch == 100
BatchSizes == {20, 50}

\* 163-186: what _post_with_variants does with a chunk: the rows, or the last
\* error once every variant failed
PostOutcomes == {"ok", "ReadTimeout", "Exception"}

\* 212-219: the batch size after a failed chunk
Shrunk(current) == IF current \div 2 > MinBatch THEN current \div 2 ELSE MinBatch

\* 210: the batch size after a successful chunk
Widened(current) ==
  IF current < MaxBatch
  THEN (IF current + BatchStep < MaxBatch THEN current + BatchStep ELSE MaxBatch)
  ELSE current

\* 199: the positions of product_ids[i:i+current]
Chunk(c) == {k \in 1..c.n : c.i < k /\ k <= c.i + c.current}

\* 194-197: n ids, no chunk posted; 'ok' counts for each id the successful
\* chunks it was part of, 'odd' is the parity of the failed posts
StockCalls ==
  {[fn |-> "_fetch_stockprice_resilient", n |-> n, i |-> 0, current |-> b,
    ok |-> [k \in 1..n |-> 0], odd |-> FALSE, state |-> "running",
    prev |-> [out |-> "none", i |-> 0, current |-> b]] :
     n \in 0..MaxIds, b \in BatchSizes}

InitStock ==
  /\ EmptyStore
  /\ call \in StockCalls

\* one turn of the loop 198-219
ChunkPost ==
  /\ call.fn = "_fetch_stockprice_resilient"
  /\ call.state = "running"
  /\ call.i < call.n
  /\ \E out \in PostOutcomes :
       call' = IF out = "ok"
               THEN [call EXCEPT
                       !.ok = [k \in 1..call.n |->
                                 IF k \in Chunk(call) THEN call.ok[k] + 1 ELSE call.ok[k]],
                       !.i = call.i + call.current,
                       !.current = Widened(call.current),
                       !.prev = [out |-> out, i |-> call.i, current |-> call.current]]
               ELSE [call EXCEPT
                       !.current = Shrunk(call.current),
                       !.odd = ~call.odd,
                       !.prev = [out |-> out, i |-> call.i, current |-> call.current]]
  /\ UNCHANGED mainvars

\* 198 and 220: the list is used up, prices and stocks are returned
StockReturn ==
  /\ call.fn = "_fetch_stockprice_resilient"
  /\ call.state = "running"
  /\ call.i >= call.n
  /\ call' = [call EXCEPT !.state = "returned"]
  /\ UNCHANGED mainvars

NextStock ==
  \/ ChunkPost
  \/ StockReturn

\* the function runs on one thread and every request inside
\* _post_with_variants ends (timeouts, six attempts, four variants): a turn
\* that can be taken is taken
SpecStock == InitStock /\ [][NextStock]_vars /\ WF_vars(NextStock)

\* -------------------------------------------------------------------- C27
C27_Safe ==
  call.fn = "_fetch_stockprice_resilient" =>
    /\ call.prev.out \in {"ReadTimeout", "Exception"} =>
         /\ call.i = call.prev.i
         /\ call.current >= MinBatch
         /\ call.current = (IF call.prev.current \div 2 >= 10
                            THEN call.prev.current \div 2 ELSE 10)
    /\ call.state = "returned" => \A k \in 1..call.n : call.ok[k] = 1

\* C27: for every finite list of product ids and every behaviour of the
\* stock/price endpoint, one that fails on every request included,
\* _fetch_stockprice_resilient ends, returning prices and stocks or raising
\* one terminal error; after a failed chunk the batch size is halved (never
\* below 10) and the same ids are retried; on return every product id was
\* part of exactly one successful chunk.
C27_Terminates == [](C27_Safe) /\ <>(call.state # "running")

\* ------------------------------------------- category map (get_items_mapped)
\* category texts are sequences of characters; "nbsp" is U+00A0
CatTvAndVideo == <<"T", "V", " ", "&", " ", "V", "í", "d", "e", "o">>
CatTvYVideo == <<"t", "v", " ", "y", " ", "v", "i", "d", "e", "o">>
CatTv == <<"t", "v">>
CatVideo == <<"v", "i", "d", "e", "o">>
CatTvYVideoHd == <<"t", "v", " ", "y", " ", "v", "i", "d", "e", "o", " ", "h", "d">>
CatHdVideo == <<"h", "d", " ", "v", "i", "d", "e", "o">>
CatTvsYVideo == <<"t", "v", "s", " ", "y", " ", "v", "i", "d", "e", "o">>
CatATvsYVideo == <<"a", "t", "v", "s", " ", "y", " ", "v", "i", "d", "e", "o">>
CatTvSlashVideo == <<"T", "v", "/", "V", "í", "d", "e", "o", "!">>
CatAudio == <<"nbsp", "a", "u", "d", "i", "o", " ">>
CatEmpty == <<>>

\* code points of the characters a normalized key can hold
Code ==
  [ch \in {" ", "(", ")", "-", "/", "_", "a", "d", "e", "h", "i", "o", "s",
           "t", "u", "v", "y"} |->
     CASE ch = " " -> 32 [] ch = "(" -> 40 [] ch = ")" -> 41 [] ch = "-" -> 45
       [] ch = "/" -> 47 [] ch = "_" -> 95 [] ch = "a" -> 97 [] ch = "d" -> 100
       [] ch = "e" -> 101 [] ch = "h" -> 104 [] ch = "i" -> 105 [] ch = "o" -> 111
       [] ch = "s" -> 115 [] ch = "t" -> 116 [] ch = "u" -> 117 [] ch = "v" -> 118
       [] ch = "y" -> 121]

\* 382-386 and 389: blanks of other kinds become a blank, accents are taken
\* off, letters are lowered
Plain(ch) ==
  CASE ch = "nbsp" -> " "
    [] ch = "í" -> "i"
    [] ch = "T" -> "t"
    [] ch = "V" -> "v"
    [] OTHER -> ch

\* 390-399: what one character adds to the key
Emit(ch) ==
  CASE Plain(ch) = "&" -> <<" ", "y", " ">>
    [] Plain(ch) = "/" -> <<" ", "/", " ">>
    [] Plain(ch) \in DOMAIN Code -> <<Plain(ch)>>
    [] OTHER -> <<>>

RECURSIVE EmitAll(_)
EmitAll(t) == IF t = <<>> THEN <<>> ELSE Emit(Head(t)) \o EmitAll(Tail(t))

\* 401: runs of blanks become one blank
RECURSIVE Collapse(_)
Collapse(t) ==
  IF Len(t) <= 1 THEN t
  ELSE IF t[1] = " " /\ t[2] = " " THEN Collapse(Tail(t))
  ELSE <<t[1]>> \o Collapse(Tail(t))

_mm_norm_key(t) == Strip(Collapse(EmitAll(t)))

\* str.startswith and str.endswith
StartsWith(a, b) == Len(b) <= Len(a) /\ SubSeq(a, 1, Len(b)) = b
EndsWith(a, b) == Len(b) <= Len(a) /\ SubSeq(a, Len(a) - Len(b) + 1, Len(a)) = b

\* the order of Python strings
RECURSIVE StrLess(_, _)
StrLess(a, b) ==
  IF b = <<>> THEN FALSE
  ELSE IF a = <<>> THEN TRUE
  ELSE IF Head(a) # Head(b) THEN Code[Head(a)] < Code[Head(b)]
  ELSE StrLess(Tail(a), Tail(b))

\* difflib.SequenceMatcher.find_longest_match on a[alo..ahi], b[blo..bhi]:
\* the longest common block, the earliest in a, then the earliest in b
Blocks(a, b, alo, ahi, blo, bhi) ==
  {blk \in (alo..ahi) \X (blo..bhi) \X (1..Len(a)) :
     /\ blk[1] + blk[3] - 1 <= ahi
     /\ blk[2] + blk[3] - 1 <= bhi
     /\ SubSeq(a, blk[1], blk[1] + blk[3] - 1) = SubSeq(b, blk[2], blk[2] + blk[3] - 1)}

Longest(B) ==
  CHOOSE blk \in B : \A o \in B :
    \/ blk[3] > o[3]
    \/ blk[3] = o[3] /\ blk[1] < o[1]
    \/ blk[3] = o[3] /\ blk[1] = o[1] /\ blk[2] <= o[2]

\* difflib.SequenceMatcher.get_matching_blocks: the matched characters
RECURSIVE Matched(_, _, _, _, _, _)
Matched(a, b, alo, ahi, blo, bhi) ==
  IF Blocks(a, b, alo, ahi, blo, bhi) = {} THEN 0
  ELSE LET blk == Longest(Blocks(a, b, alo, ahi, blo, bhi))
       IN  blk[3] + Matched(a, b, alo, blk[1] - 1, blo, blk[2] - 1)
                  + Matched(a, b, blk[1] + blk[3], ahi, blk[2] + blk[3], bhi)

\* difflib.SequenceMatcher.ratio as the fraction num / den
Ratio(a, b) ==
  IF Len(a) + Len(b) = 0 THEN [num |-> 1, den |-> 1]
  ELSE [num |-> 2 * Matched(a, b, 1, Len(a), 1, Len(b)), den |-> Len(a) + Len(b)]

\* 418: cutoff 0.92 = 23 / 25
Cutoff == [num |-> 23, den |-> 25]
AtLeast(r, c) == r.num * c.den >= c.num * r.den

\* 418: difflib.get_close_matches(key, keys, n=1, cutoff=0.92): the keys at
\* or above the cutoff, the largest (ratio, key) pair first
CloseTo(mapping, key) ==
  {p \in 1..Len(mapping) : AtLeast(Ratio(mapping[p].k, key), Cutoff)}

Closest(mapping, key) ==
  CHOOSE p \in CloseTo(mapping, key) : \A q \in CloseTo(mapping, key) \ {p} :
    LET rp == Ratio(mapping[p].k, key)
        rq == Ratio(mapping[q].k, key)
    IN  \/ rp.num * rq.den > rq.num * rp.den
        \/ rp.num * rq.den = rq.num * rp.den /\ StrLess(mapping[q].k, mapping[p].k)

\* 413-416: the keys k with key.startswith(k) or key.endswith(k) or
\* k.startswith(key), in the order of the dict
Affixed(mapping, key) ==
  {p \in 1..Len(mapping) :
     \/ StartsWith(key, mapping[p].k)
     \/ EndsWith(key, mapping[p].k)
     \/ StartsWith(mapping[p].k, key)}

Same(mapping, key) == {p \in 1..Len(mapping) : mapping[p].k = key}

NoDst == [hit |-> FALSE, d |-> <<>>]
Dst(mapping, p) == [hit |-> TRUE, d |-> mapping[p].d]

\* 403-422
_mm_find_map(mapping, src_text) ==
  IF mapping = <<>> THEN NoDst
  ELSE IF Same(mapping, _mm_norm_key(src_text)) # {}
  THEN Dst(mapping, Min(Same(mapping, _mm_norm_key(src_text))))
  ELSE IF Affixed(mapping, _mm_norm_key(src_text)) # {}
  THEN Dst(mapping, Min(Affixed(mapping, _mm_norm_key(src_text))))
  ELSE IF CloseTo(mapping, _mm_norm_key(src_text)) # {}
  THEN Dst(mapping, Closest(mapping, _mm_norm_key(src_text)))
  ELSE NoDst

\* 335-340: a row with a source fills the dict; a key seen before keeps its
\* place and takes the new destination
PutKey(mapping, k, d) ==
  IF Same(mapping, k) # {}
  THEN [p \in 1..Len(mapping) |-> IF mapping[p].k = k THEN [k |-> k, d |-> d] ELSE mapping[p]]
  ELSE Append(mapping, [k |-> k, d |-> d])

RECURSIVE LoadRows(_, _)
LoadRows(rows, mapping) ==
  IF rows = <<>> THEN mapping
  ELSE LoadRows(Tail(rows),
                IF Strip(Head(rows).s) = <<>> THEN mapping
                ELSE PutKey(mapping, _mm_norm_key(Strip(Head(rows).s)),
                            IF Strip(Head(rows).d) # <<>> THEN Strip(Head(rows).d)
                            ELSE Strip(Head(rows).s)))

_mm_load_cat_map(rows) == LoadRows(rows, <<>>)

\* the rows of a mapping file and the categories of an item
MaxRows == 2
MapRows ==
  {[s |-> CatTvAndVideo, d |-> <<"D", "1">>], [s |-> CatTv, d |-> <<"D", "2">>],
   [s |-> CatVideo, d |-> <<>>], [s |-> CatATvsYVideo, d |-> <<"D", "4">>],
   [s |-> CatTvYVideo, d |-> <<"D", "5">>], [s |-> CatEmpty, d |-> <<"D", "6">>]}
MapFiles ==
  UNION {{f \in [1..n -> MapRows] : \A p, q \in 1..n : f[p] = f[q] => p = q} : n \in 0..MaxRows}
ItemCategories ==
  {CatTvAndVideo, CatTvYVideo, CatTv, CatVideo, CatTvYVideoHd, CatHdVideo,
   CatTvsYVideo, CatTvSlashVideo, CatAudio, CatEmpty}

\* the item as get_items returns it: 'category' can be absent
MapCalls ==
  {c \in [fn : {"get_items_mapped"}, rows : MapFiles, has_category : BOOLEAN,
          category : ItemCategories, has_public : {FALSE}, public_category : {<<>>},
          src : ItemCategories, state : {"running"}] :
     /\ c.src = c.category
     /\ ~c.has_category => c.category = CatEmpty}

InitMap ==
  /\ EmptyStore
  /\ call \in MapCalls

\* 424-451 for one item
get_items_mapped ==
  /\ call.fn = "get_items_mapped"
  /\ call.state = "running"
  /\ \E dst \in {_mm_find_map(_mm_load_cat_map(call.rows), call.category)} :
       call' = IF dst.hit /\ dst.d # <<>>
               THEN [call EXCEPT !.state = "returned", !.has_category = TRUE,
                                 !.category = dst.d, !.has_public = TRUE,
                                 !.public_category = dst.d]
               ELSE [call EXCEPT !.state = "returned"]
  /\ UNCHANGED mainvars

NextMap == get_items_mapped

SpecMap == InitMap /\ [][NextMap]_vars

\* -------------------------------------------------------------------- C30
\* C30: for every non-empty mapping table get_items_mapped leaves an item
\* whose category is absent or empty without a category change and without
\* public_category.
C30_EmptyUnmapped ==
  (/\ call.fn = "get_items_mapped"
   /\ call.state = "returned"
   /\ call.src = CatEmpty
   /\ _mm_load_cat_map(call.rows) # <<>>)
    => (call.category = call.src /\ ~call.has_public)

\* -------------------------------------------------------------------- C28
\* the positions of the keys in a prefix/suffix relation with the key
C28_Related(mapping, key) ==
  {p \in 1..Len(mapping) :
     \/ StartsWith(key, mapping[p].k) \/ EndsWith(key, mapping[p].k)
     \/ StartsWith(mapping[p].k, key) \/ EndsWith(mapping[p].k, key)}

\* the positions of the closest keys among those with similarity >= 0.92
C28_Nearest(mapping, key) ==
  {p \in CloseTo(mapping, key) : \A q \in CloseTo(mapping, key) :
     Ratio(mapping[p].k, key).num * Ratio(mapping[q].k, key).den
       >= Ratio(mapping[q].k, key).num * Ratio(mapping[p].k, key).den}

\* the positions of the keys whose destination the claim allows
C28_Allowed(mapping, key) ==
  IF Same(mapping, key) # {} THEN Same(mapping, key)
  ELSE IF C28_Related(mapping, key) # {} THEN {Min(C28_Related(mapping, key))}
  ELSE C28_Nearest(mapping, key)

\* C28: _mm_find_map gives the destination of the key equal to the
\* normalized category when there is one, even if other keys are prefixes or
\* suffixes of it; otherwise that of the first key in a prefix/suffix
\* relation with it; otherwise that of the closest key with similarity at
\* least 0.92; when none matches get_items_mapped leaves the category as it
\* was and sets no public_category. 'TV & Vídeo' and 'tv y video' normalize
\* to the same key.
C28_LookupOrder ==
  /\ _mm_norm_key(CatTvAndVideo) = _mm_norm_key(CatTvYVideo)
  /\ (/\ call.fn = "get_items_mapped"
      /\ call.state = "returned"
      /\ _mm_load_cat_map(call.rows) # <<>>)
       => IF C28_Allowed(_mm_load_cat_map(call.rows), _mm_norm_key(call.src)) = {}
          THEN call.category = call.src /\ ~call.has_public
          ELSE \E p \in C28_Allowed(_mm_load_cat_map(call.rows), _mm_norm_key(call.src)) :
                 /\ call.category = _mm_load_cat_map(call.rows)[p].d
                 /\ call.has_public
                 /\ call.public_category = _mm_load_cat_map(call.rows)[p].d

\* -------------------------------------------------------------------- C29
\* the links of other vendors on the record with the code
C29_Others(L, vendor, tmpl, sku) ==
  {k \in 1..Len(L) : /\ L[k].product_tmpl_id = tmpl
                     /\ L[k].product_code = sku
                     /\ L[k].partner_id # vendor}

C29_WithCode(L, tmpl, sku) ==
  {k \in 1..Len(L) : L[k].product_tmpl_id = tmpl /\ L[k].product_code = sku}

\* C29: after every upsert with vendor V, record R and code S, whatever
\* links R had before (several links of other vendors with code S, or
\* several links of V itself), R has exactly one link with product_code S
\* and V owns it; when V owned no link on R and other vendors owned links
\* with code S, the first of them is kept in its place and given to V, the
\* rest are deleted and no link is created; when V already owned a link on
\* R, all links of other vendors with code S are deleted.
C29_ReconcileStep ==
  [][(UpsertStep /\ last'.err = "none" /\ VendorSet(items[i + 1])) =>
       LET V == cfg.vendor_id
           R == last'.tmpl
           S == items[i + 1].sku
           own == LinksOf(links, V, R)
           others == C29_Others(links, V, R, S)
       IN /\ Cardinality(C29_WithCode(links', R, S)) = 1
          /\ \A k \in C29_WithCode(links', R, S) : links'[k].partner_id = V
          /\ (own = {} /\ others # {}) =>
               /\ Len(links') = Len(links) - Cardinality(others) + 1
               /\ links'[Min(others)] =
                    [partner_id |-> V, product_tmpl_id |-> R, product_code |-> S]
          /\ own # {} =>
               /\ C29_Others(links', V, R, S) = {}
               /\ Len(links') = Len(links) - Cardinality(others)]_vars

====
